---------------------------- MODULE Spec2Model ----------------------------
(***************************************************************************)
(* Zone-based raster personalization engine (pdf_personalizer.core).       *)
(*                                                                         *)
(* The module holds one harness per entry point of the engine.  A harness  *)
(* draws the arguments of a call from bounded sets (its Init) and applies  *)
(* the function as the source computes it (its action), leaving the        *)
(* returned value in ret and a raised exception in exc.                    *)
(*                                                                         *)
(*   SpecGeom   zone_to_pixel_rect / create_mask                           *)
(*   SpecErase  mask_zone_pixels                                           *)
(*   SpecFit    fit_and_render_text                                        *)
(*   SpecComp   composite_strict, composite_text                           *)
(*   SpecPass   mask_zone_pixels followed by composite_text passes         *)
(*   SpecRow    BatchProcessor.process_single_guest, zone by zone          *)
(*   SpecBatch  BatchProcessor.__init__ and process_batch, row by row      *)
(*   SpecCalls  BatchProcessor.__init__ and interleaved calls of           *)
(*              process_single_guest                                       *)
(*   SpecPreview  process_single_guest and process_batch on one row        *)
(*   SpecGenerate process_batch followed by generate_all's output records  *)
(*   SpecName   _sanitize_filename, _derive_output_name                     *)
(*                                                                         *)
(* Images are functions from <<row, column>> to an RGB triple of bytes;    *)
(* masks are functions from <<row, column>> to 0 or 255.                   *)
(***************************************************************************)
EXTENDS Integers, Sequences, FiniteSets, TLC

VARIABLES
    OPENCV_AVAILABLE,   \* pixel_engine.OPENCV_AVAILABLE, fixed at import
    PANGO_AVAILABLE,    \* pixel_engine.PANGO_AVAILABLE, fixed at import
    fn,                 \* the function the harness has applied ("" before the call)
    args,               \* the arguments of the call
    ret,                \* the value returned (None when it raised)
    exc,                \* the exception the call raised, or "none"
    _base_images,       \* BatchProcessor._base_images: the rasterized template pages
    images,             \* _process_single's working copy of the pages
    work,               \* the (text, zone id) pairs _process_single has still to apply
    output_dir,         \* the files of BatchProcessor.output_dir
    calls,              \* the per-row calls of _process_single, each with its locals
    output_files        \* process_batch's output_files

\* the state of a BatchProcessor, untouched by the calls of the engine's functions
rowvars == <<_base_images, images, work, output_dir, calls, output_files>>
vars == <<OPENCV_AVAILABLE, PANGO_AVAILABLE, fn, args, ret, exc, rowvars>>
\* no BatchProcessor exists
NoProcessor ==
    /\ _base_images = <<>> /\ images = <<>> /\ work = <<>> /\ output_dir = {}
    /\ calls = <<>> /\ output_files = <<>>

\* Python None, where an array, a rectangle or a result record is expected
None == [none |-> TRUE]
\* an absent colour string: None and "" are both falsy where the source tests them
NoColor == <<>>

-----------------------------------------------------------------------------
(* Bounds of the model *)

\* zone_to_pixel_rect harness: image sides 1..GeomMaxDim pixels
GeomMaxDim == 5
\* zone_to_pixel_rect harness: zone coordinates and extents -GeomMaxNeg..GeomMaxPt points
GeomMaxPt == 4
GeomMaxNeg == 2
\* mask_zone_pixels harness: the page is EraseW x EraseH pixels
EraseW == 16
EraseH == 4
\* fit_and_render_text harness: the zone is at most FitMaxW x FitMaxH pixels
\* and the longest text has FitMaxLen characters
FitMaxW == 30
FitMaxH == 26
FitMaxLen == 8
\* composite_strict harness: the page is CompW x CompH pixels
CompW == 3
CompH == 2
\* composite_text harness: the page is TextW x TextH pixels
TextW == 24
TextH == 24
\* process_single_guest harness: every page is RowW x RowH pixels
RowW == 24
RowH == 22

-----------------------------------------------------------------------------
(* Arithmetic of the source *)

Max(a, b) == IF a >= b THEN a ELSE b
Min(a, b) == IF a <= b THEN a ELSE b

\* Python: round(n/d) for d > 0, ties to the even integer, then int()
RoundHalfEven(n, d) ==
    LET q == n \div d
        r == n % d
    IN  IF 2 * r < d THEN q
        ELSE IF 2 * r > d THEN q + 1
        ELSE IF q % 2 = 0 THEN q ELSE q + 1

\* _clamp without the lower limit
ClampNoFloor(v, lo, hi) == Min(hi, v)

_clamp(v, lo, hi) == Max(lo, Min(hi, v))

\* value_pt * (dpi / 72.0), rounded: value_pt is a whole number of points
_points_to_pixels(value_pt, dpi) == RoundHalfEven(value_pt * dpi, 72)

-----------------------------------------------------------------------------
(* types.py *)

MaskMode == [SOLID |-> "solid", AUTO |-> "auto_sample", MAGIC |-> "magic_erase", NONE |-> "none"]
Align == [LEFT |-> "left", CENTER |-> "center", RIGHT |-> "right"]
VAlign == [TOP |-> "top", MIDDLE |-> "middle", BOTTOM |-> "bottom"]

Rect(x, y, width, height) == [x |-> x, y |-> y, width |-> width, height |-> height]

\* a colour string is the sequence of its characters
Chars6(a, b, c, d, e, f) == <<"#", a, b, c, d, e, f>>
BlackHex == Chars6("0", "0", "0", "0", "0", "0")

MaskConfig(enabled, mode, color_hex) ==
    [enabled |-> enabled, mode |-> mode, color_hex |-> color_hex]
MaskConfigDefault == MaskConfig(TRUE, MaskMode.AUTO, NoColor)

TextConfig(font_size, color_hex, align, valign) ==
    [font_family |-> "Noto Sans Gujarati", font_size |-> font_size,
     color_hex |-> color_hex, align |-> align, valign |-> valign]
TextConfigDefault == TextConfig(12, BlackHex, Align.CENTER, VAlign.MIDDLE)

Zone(zone_id, page_number, rect, mask, text) ==
    [zone_id |-> zone_id, page_number |-> page_number, rect |-> rect,
     mask |-> mask, text |-> text]

-----------------------------------------------------------------------------
(* PixelRect and coordinate conversion *)

PixelRect(x0, y0, x1, y1) == [x0 |-> x0, y0 |-> y0, x1 |-> x1, y1 |-> y1]
RectWidth(rect) == Max(0, rect.x1 - rect.x0)
RectHeight(rect) == Max(0, rect.y1 - rect.y0)
is_valid(rect) == RectWidth(rect) > 0 /\ RectHeight(rect) > 0

\* zone_to_pixel_rect without the swap of inverted endpoints
ZoneToPixelRectNoSwap(img_size, zone, dpi) ==
    PixelRect(_clamp(RoundHalfEven(zone.rect.x * dpi, 72), 0, img_size[1]),
              _clamp(RoundHalfEven(zone.rect.y * dpi, 72), 0, img_size[2]),
              _clamp(RoundHalfEven((zone.rect.x + zone.rect.width) * dpi, 72), 0, img_size[1]),
              _clamp(RoundHalfEven((zone.rect.y + zone.rect.height) * dpi, 72), 0, img_size[2]))

\* img_size is <<width, height>>
zone_to_pixel_rect(img_size, zone, dpi) ==
    LET img_w == img_size[1]
        img_h == img_size[2]
        x0 == _clamp(RoundHalfEven(zone.rect.x * dpi, 72), 0, img_w)
        y0 == _clamp(RoundHalfEven(zone.rect.y * dpi, 72), 0, img_h)
        x1 == _clamp(RoundHalfEven((zone.rect.x + zone.rect.width) * dpi, 72), 0, img_w)
        y1 == _clamp(RoundHalfEven((zone.rect.y + zone.rect.height) * dpi, 72), 0, img_h)
    IN  PixelRect(IF x1 < x0 THEN x1 ELSE x0,
                  IF y1 < y0 THEN y1 ELSE y0,
                  IF x1 < x0 THEN x0 ELSE x1,
                  IF y1 < y0 THEN y0 ELSE y1)

-----------------------------------------------------------------------------
(* Images and masks *)

\* the pixel positions <<row, column>> of an array of h rows and w columns
Pixels(w, h) == (0 .. h - 1) \X (0 .. w - 1)

\* the function f with its values computed once
Materialize(f) == IF f = f THEN f ELSE f

\* a numpy array of shape (h, w, ...) with the entries px
Array(w, h, px) == [w |-> w, h |-> h, px |-> Materialize(px)]

SameShape(a, b) == a.w = b.w /\ a.h = b.h

InRect(p, rect) ==
    /\ rect.y0 <= p[1] /\ p[1] < rect.y1
    /\ rect.x0 <= p[2] /\ p[2] < rect.x1

\* create_mask that marks the whole rows of the rectangle
CreateMaskFullRows(img_size, rect) ==
    Array(img_size[1], img_size[2],
          [p \in Pixels(img_size[1], img_size[2]) |->
              IF is_valid(rect) /\ rect.y0 <= p[1] /\ p[1] < rect.y1 THEN 255 ELSE 0])

create_mask(img_size, rect) ==
    LET w == img_size[1]
        h == img_size[2]
    IN  Array(w, h, [p \in Pixels(w, h) |->
                        IF is_valid(rect) /\ InRect(p, rect) THEN 255 ELSE 0])

-----------------------------------------------------------------------------
(* Compositing with strict mask *)

padding == 6

\* one channel of source-over blending, truncated to a byte:
\* page * (1 - a/255) + text * (a/255)
BlendChannel(page_c, text_c, a) == (page_c * (255 - a) + text_c * a) \div 255

\* the paste offset centred in the whole zone after the padding
PasteOffsetInZone(page_rgb, text_rgba, rect) ==
    LET x_off == rect.x0 + padding + (RectWidth(rect) - text_rgba.w) \div 2
        y_off == rect.y0 + padding + (RectHeight(rect) - text_rgba.h) \div 2
    IN  [x_off |-> Max(0, Min(x_off, page_rgb.w - text_rgba.w)),
         y_off |-> Max(0, Min(y_off, page_rgb.h - text_rgba.h))]

\* the paste offset of the text buffer: centred in the zone interior, clamped to the image
PasteOffset(page_rgb, text_rgba, rect) ==
    LET x_off == rect.x0 + padding + (RectWidth(rect) - padding * 2 - text_rgba.w) \div 2
        y_off == rect.y0 + padding + (RectHeight(rect) - padding * 2 - text_rgba.h) \div 2
    IN  [x_off |-> Max(0, Min(x_off, page_rgb.w - text_rgba.w)),
         y_off |-> Max(0, Min(y_off, page_rgb.h - text_rgba.h))]

\* whether the buffer is pasted on the canvas at the offset
Pasted(page_rgb, text_rgba, off) ==
    off.y_off + text_rgba.h <= page_rgb.h /\ off.x_off + text_rgba.w <= page_rgb.w

\* the full-page RGBA canvas: the text buffer at the offset, zeros elsewhere
Canvas(page_rgb, text_rgba, off) ==
    [p \in Pixels(page_rgb.w, page_rgb.h) |->
        IF /\ Pasted(page_rgb, text_rgba, off)
           /\ off.y_off <= p[1] /\ p[1] < off.y_off + text_rgba.h
           /\ off.x_off <= p[2] /\ p[2] < off.x_off + text_rgba.w
        THEN text_rgba.px[<<p[1] - off.y_off, p[2] - off.x_off>>]
        ELSE <<0, 0, 0, 0>>]

\* one pixel of the source-over blend of the canvas onto the page
Blended(page_rgb, canvas_rgba, p) ==
    [c \in 1..3 |-> BlendChannel(page_rgb.px[p][c], canvas_rgba[p][c], canvas_rgba[p][4])]

\* composite_strict without the final restore of the pixels outside the mask
CompositeNoRestore(page_rgb, text_rgba, rect, mask) ==
    LET off == PasteOffset(page_rgb, text_rgba, rect)
        canvas_rgba == Canvas(page_rgb, text_rgba, off)
    IN  IF ~SameShape(mask, page_rgb)
        THEN [exc |-> "IndexError", out |-> None]
        ELSE [exc |-> "none",
              out |-> Array(page_rgb.w, page_rgb.h,
                         [p \in Pixels(page_rgb.w, page_rgb.h) |->
                             Blended(page_rgb, canvas_rgba, p)])]

\* Returns [exc, out]: a boolean index whose shape differs from the page's raises.
composite_strict(page_rgb, text_rgba, rect, mask) ==
    LET off == PasteOffset(page_rgb, text_rgba, rect)
        canvas_rgba == Canvas(page_rgb, text_rgba, off)
    IN  IF ~SameShape(mask, page_rgb)
        THEN [exc |-> "IndexError", out |-> None]
        ELSE [exc |-> "none",
              out |-> Array(page_rgb.w, page_rgb.h,
                         [p \in Pixels(page_rgb.w, page_rgb.h) |->
                             IF mask.px[p] = 0 THEN page_rgb.px[p]
                             ELSE Blended(page_rgb, canvas_rgba, p)])]

-----------------------------------------------------------------------------
(* OpenCV operations, as the engine uses them *)

RECURSIVE SumSeq(_, _)
\* s[1] + ... + s[n]
SumSeq(s, n) == IF n = 0 THEN 0 ELSE s[n] + SumSeq(s, n - 1)

\* cv2.dilate(mask, np.ones((k, k)), iterations=1): the kernel is anchored at
\* k div 2 and pixels beyond the image do not count.  Rows, then columns.
DilateOnce(mask, k) ==
    LET a == k \div 2
        rows == Materialize(
                  [p \in Pixels(mask.w, mask.h) |->
                      IF \E x \in Max(0, p[2] - a) .. Min(mask.w - 1, p[2] - a + k - 1) :
                            mask.px[<<p[1], x>>] > 0
                      THEN 255 ELSE 0])
    IN  Array(mask.w, mask.h,
              [p \in Pixels(mask.w, mask.h) |->
                  IF \E y \in Max(0, p[1] - a) .. Min(mask.h - 1, p[1] - a + k - 1) :
                        rows[<<y, p[2]>>] > 0
                  THEN 255 ELSE 0])

RECURSIVE dilate(_, _, _)
dilate(mask, k, iterations) ==
    IF iterations = 0 THEN mask ELSE dilate(DilateOnce(mask, k), k, iterations - 1)

\* BORDER_REFLECT_101 (GaussianBlur) and BORDER_REPLICATE (adaptiveThreshold)
RECURSIVE Reflect101(_, _)
Reflect101(i, n) ==
    IF n = 1 THEN 0
    ELSE IF i < 0 THEN Reflect101(0 - i, n)
    ELSE IF i >= n THEN Reflect101(2 * n - 2 - i, n)
    ELSE i
Replicate(i, n) == Max(0, Min(n - 1, i))

\* cv2.getGaussianKernel(ksize, sigma) in units of 1/1024
GaussianKernel_21_10 == <<35, 39, 42, 45, 48, 51, 53, 55, 57, 58, 58, 58, 57, 55, 53, 51, 48,
                          45, 42, 39, 35>>
GaussianKernel_9_2 == <<28, 68, 127, 184, 210, 184, 127, 68, 28>>
GaussianKernel_21_auto == <<2, 4, 9, 16, 27, 42, 61, 81, 99, 112, 118, 112, 99, 81, 61, 42, 27,
                            16, 9, 4, 2>>
KernelUnit == 1024

\* The separable convolution of one plane (a function on the pixels) with
\* the kernel: the sum of the weighted taps, in units of 1/KernelUnit^2.
\* reflect = TRUE for BORDER_REFLECT_101, FALSE for BORDER_REPLICATE.
Convolve(plane, w, h, kernel, reflect) ==
    LET k == Len(kernel)
        r == (k - 1) \div 2
        B(i, n) == IF reflect THEN Reflect101(i, n) ELSE Replicate(i, n)
        rows == Materialize(
                  [p \in Pixels(w, h) |->
                      SumSeq([i \in 1..k |-> kernel[i] * plane[<<p[1], B(p[2] + i - 1 - r, w)>>]], k)])
    IN  Materialize(
          [p \in Pixels(w, h) |->
              SumSeq([i \in 1..k |-> kernel[i] * rows[<<B(p[1] + i - 1 - r, h), p[2]>>]], k)])

\* the weighted mean rounded to the nearest byte
RoundUnit(v) == (2 * v + KernelUnit * KernelUnit) \div (2 * KernelUnit * KernelUnit)

\* cv2.GaussianBlur of an RGB image
GaussianBlur(img, kernel) ==
    LET ch(c) == Convolve([p \in Pixels(img.w, img.h) |-> img.px[p][c]], img.w, img.h,
                          kernel, TRUE)
        r == ch(1)
        g == ch(2)
        b == ch(3)
    IN  Array(img.w, img.h,
              [p \in Pixels(img.w, img.h) |-> <<RoundUnit(r[p]), RoundUnit(g[p]), RoundUnit(b[p])>>])

\* cv2.cvtColor(img, COLOR_RGB2GRAY)
Gray(px) == (299 * px[1] + 587 * px[2] + 114 * px[3] + 500) \div 1000

\* cv2.adaptiveThreshold(gray, 255, ADAPTIVE_THRESH_GAUSSIAN_C, THRESH_BINARY_INV, 21, 10)
adaptiveThreshold(img) ==
    LET mean == Convolve([p \in Pixels(img.w, img.h) |-> Gray(img.px[p])], img.w, img.h,
                         GaussianKernel_21_auto, FALSE)
    IN  Array(img.w, img.h,
              [p \in Pixels(img.w, img.h) |->
                  IF Gray(img.px[p]) <= RoundUnit(mean[p]) - 10 THEN 255 ELSE 0])

\* the pixels a numpy boolean index selects
Selected(mask) == {p \in Pixels(mask.w, mask.h) : mask.px[p] > 0}

\* the sum of the plane's values over all pixels of a w x h array
SumGrid(plane, w, h) ==
    SumSeq([y \in 1..h |-> SumSeq([x \in 1..w |-> plane[<<y - 1, x - 1>>]], w)], h)

\* the sum of one channel of the image over the set S of pixels
ChannelSum(img, S, c) ==
    SumGrid([p \in Pixels(img.w, img.h) |-> IF p \in S THEN img.px[p][c] ELSE 0], img.w, img.h)

\* the k-th smallest value (k = 1 for the minimum) of a channel over S
Kth(img, S, c, k) ==
    CHOOSE v \in {img.px[p][c] : p \in S} :
        /\ Cardinality({p \in S : img.px[p][c] < v}) < k
        /\ k <= Cardinality({p \in S : img.px[p][c] <= v})

\* int(np.median(...)) of a channel over S
Median(img, S, c) ==
    LET n == Cardinality(S)
    IN  IF n % 2 = 1 THEN Kth(img, S, c, (n + 1) \div 2)
        ELSE (Kth(img, S, c, n \div 2) + Kth(img, S, c, n \div 2 + 1)) \div 2

RECURSIVE ISqrtBetween(_, _, _)
\* the integer square root of n, searched in lo..hi
ISqrtBetween(n, lo, hi) ==
    IF lo = hi THEN lo
    ELSE LET mid == (lo + hi + 1) \div 2
         IN  IF mid * mid <= n THEN ISqrtBetween(n, mid, hi) ELSE ISqrtBetween(n, lo, mid - 1)

\* np.std of a channel over S, in quarters of a grey level (rounded down)
StdQuarters(img, S, c) ==
    LET n == Cardinality(S)
        m == ChannelSum(img, S, c) \div n
        d1 == SumGrid([p \in Pixels(img.w, img.h) |->
                          IF p \in S THEN img.px[p][c] - m ELSE 0], img.w, img.h)
        d2 == SumGrid([p \in Pixels(img.w, img.h) |->
                          IF p \in S THEN (img.px[p][c] - m) * (img.px[p][c] - m) ELSE 0],
                      img.w, img.h)
        var16 == (16 * d2) \div n - (16 * d1 * d1) \div (n * n)
    IN  ISqrtBetween(Max(0, var16), 0, 1024)

\* cv2.inpaint(img, mask, 3, INPAINT_TELEA): the pixels of the region are
\* rebuilt from the known pixels around it and no other pixel changes.  The
\* diffusion is summarised: every pixel of the region receives the mean of
\* the known pixels within the inpainting radius of the region.
inpaintRadius == 3

inpaint_telea(img, mask) ==
    LET near == dilate(mask, 2 * inpaintRadius + 1, 1)
        band == {p \in Pixels(img.w, img.h) : near.px[p] > 0 /\ mask.px[p] = 0}
        n == Cardinality(band)
        fill == [c \in 1..3 |-> (2 * ChannelSum(img, band, c) + n) \div (2 * n)]
    IN  IF band = {} THEN img
        ELSE Array(img.w, img.h,
                   [p \in Pixels(img.w, img.h) |-> IF mask.px[p] > 0 THEN fill ELSE img.px[p]])

-----------------------------------------------------------------------------
(* Background sampling and inpainting *)

White == <<255, 255, 255>>

\* Returns [color, variance]: the variance in quarters of a grey level
analyze_background(img_rgb, mask) ==
    IF ~OPENCV_AVAILABLE THEN [color |-> White, variance |-> 0]
    ELSE
    LET grown == dilate(mask, 20, 8)
        \* outer_ring = dilated - mask, pixels = img_rgb[outer_ring > 0]
        pixels == {p \in Pixels(img_rgb.w, img_rgb.h) : grown.px[p] - mask.px[p] > 0}
        \* brightness = np.mean(pixels, axis=1) < 250
        valid_pixels == {p \in pixels :
                            img_rgb.px[p][1] + img_rgb.px[p][2] + img_rgb.px[p][3] < 3 * 250}
        target_pixels == IF Cardinality(valid_pixels) > 50 THEN valid_pixels ELSE pixels
    IN  IF Cardinality(pixels) < 10 THEN [color |-> White, variance |-> 0]
        ELSE [color |-> <<Median(img_rgb, target_pixels, 1), Median(img_rgb, target_pixels, 2),
                          Median(img_rgb, target_pixels, 3)>>,
              \* avg_std = np.mean(std_dev), in quarters
              variance |-> (StdQuarters(img_rgb, target_pixels, 1)
                            + StdQuarters(img_rgb, target_pixels, 2)
                            + StdQuarters(img_rgb, target_pixels, 3)) \div 3]

\* out[mask > 0] = color, with the colour given by the caller
inpaint_color_fill(img_rgb, mask, color) ==
    Array(img_rgb.w, img_rgb.h,
          [p \in Pixels(img_rgb.w, img_rgb.h) |-> IF mask.px[p] > 0 THEN color ELSE img_rgb.px[p]])

\* variance < 10.0, the variance in quarters of a grey level
IS_SOLID(variance) == variance < 4 * 10
\* is_bright for an analysis that never takes a background for a white box
NeverBright(bg_color) == FALSE
is_bright(bg_color) == bg_color[1] + bg_color[2] + bg_color[3] > 750

\* inpaint_smart using Telea whether or not OpenCV is there
InpaintForTelea(img_rgb, mask, bg) ==
    IF IS_SOLID(bg.variance) /\ ~is_bright(bg.color)
    THEN [out |-> inpaint_color_fill(img_rgb, mask, bg.color), how |-> "fill",
          bg_color |-> bg.color]
    ELSE [out |-> inpaint_telea(img_rgb, mask), how |-> "telea", bg_color |-> bg.color]

\* the branch of inpaint_smart for an analysed background
InpaintFor(img_rgb, mask, bg) ==
    IF IS_SOLID(bg.variance) /\ ~is_bright(bg.color)
    THEN [out |-> inpaint_color_fill(img_rgb, mask, bg.color), how |-> "fill",
          bg_color |-> bg.color]
    ELSE IF OPENCV_AVAILABLE
    THEN [out |-> inpaint_telea(img_rgb, mask), how |-> "telea", bg_color |-> bg.color]
    ELSE [out |-> inpaint_color_fill(img_rgb, mask, bg.color), how |-> "fill",
          bg_color |-> bg.color]

\* Returns [out, how, bg_color]: how names the branch taken ("fill" or "telea")
inpaint_smart(img_rgb, mask) == InpaintFor(img_rgb, mask, analyze_background(img_rgb, mask))

\* Mask of the text characters within the zone
create_text_mask(img_rgb, zone_mask) ==
    LET thresh == adaptiveThreshold(img_rgb)
    IN  Array(img_rgb.w, img_rgb.h,
              [p \in Pixels(img_rgb.w, img_rgb.h) |->
                  IF zone_mask.px[p] > 0 THEN thresh.px[p] ELSE 0])

-----------------------------------------------------------------------------
(* Colour strings *)

HexDigits == <<"0", "1", "2", "3", "4", "5", "6", "7", "8", "9",
               "A", "B", "C", "D", "E", "F">>

IsHexDigit(ch) == \E i \in 1..16 : HexDigits[i] = ch
HexValue(ch) == (CHOOSE i \in 1..16 : HexDigits[i] = ch) - 1

\* hex_color.lstrip("#")
RECURSIVE LStripHash(_)
LStripHash(cs) ==
    IF cs # <<>> /\ Head(cs) = "#" THEN LStripHash(Tail(cs)) ELSE cs

\* the Python slice cs[a:b] of a string (a, b >= 0)
Slice(cs, a, b) == SubSeq(cs, a + 1, Min(b, Len(cs)))

\* int(cs, 16) of a string of at most two characters: [exc, v]
IntHex(cs) ==
    IF cs = <<>> \/ \E i \in 1..Len(cs) : ~IsHexDigit(cs[i])
    THEN [exc |-> "ValueError", v |-> 0]
    ELSE [exc |-> "none",
          v |-> IF Len(cs) = 1 THEN HexValue(cs[1])
                ELSE 16 * HexValue(cs[1]) + HexValue(cs[2])]

\* Returns [exc, rgb]
_hex_to_rgb(hex_color) ==
    LET stripped == LStripHash(hex_color)
        c == IF Len(stripped) = 3
             THEN <<stripped[1], stripped[1], stripped[2], stripped[2], stripped[3], stripped[3]>>
             ELSE stripped
        r == IntHex(Slice(c, 0, 2))
        g == IntHex(Slice(c, 2, 4))
        b == IntHex(Slice(c, 4, 6))
    IN  IF r.exc # "none" \/ g.exc # "none" \/ b.exc # "none"
        THEN [exc |-> "ValueError", rgb |-> None]
        ELSE [exc |-> "none", rgb |-> <<r.v, g.v, b.v>>]

-----------------------------------------------------------------------------
(* Text rendering.  A text is the sequence of its characters; a Gujarati   *)
(* or Devanagari character is written by the name of its code point.       *)

IndicChars == {"U+0A95", "U+0928"}

_contains_indic(text) == \E i \in 1..Len(text) : text[i] \in IndicChars

\* Python str.strip(): whitespace removed at both ends
Whitespace == {" ", "\t", "\n"}
RECURSIVE LStrip(_)
LStrip(text) == IF text # <<>> /\ Head(text) \in Whitespace THEN LStrip(Tail(text)) ELSE text
RECURSIVE RStrip(_)
RStrip(text) ==
    IF text # <<>> /\ text[Len(text)] \in Whitespace
    THEN RStrip(SubSeq(text, 1, Len(text) - 1)) ELSE text
Strip(text) == RStrip(LStrip(text))

\* Font metrics of the loaded font at size_px: every character advances by
\* GlyphAdvance, its ink is a box GlyphHeight tall that starts GlyphTop
\* below the drawing origin; a space has no ink.
GlyphAdvance(size_px) == Max(1, size_px \div 2)
GlyphTop(size_px) == size_px \div 4
GlyphHeight(size_px) == Max(1, (3 * size_px) \div 4)
HasInk(ch) == ch \notin Whitespace

\* draw.textbbox((0, 0), text, font): <<left, top, right, bottom>>
textbbox(text, size_px) ==
    <<0, GlyphTop(size_px), Len(text) * GlyphAdvance(size_px),
      GlyphTop(size_px) + GlyphHeight(size_px)>>

Transparent == <<0, 0, 0, 0>>
Opaque(color) == <<color[1], color[2], color[3], 255>>

\* RGBA canvas of the given size with the text drawn at (x, y), clipped to the canvas
DrawText(text, width, height, font_size, x, y, color) ==
    LET adv == GlyphAdvance(font_size)
        bbox == textbbox(text, font_size)
    IN  Array(width, height,
              [p \in Pixels(width, height) |->
                  IF /\ y + bbox[2] <= p[1] /\ p[1] < y + bbox[4]
                     /\ x <= p[2] /\ p[2] < x + bbox[3]
                     /\ HasInk(text[((p[2] - x) \div adv) + 1])
                  THEN Opaque(color) ELSE Transparent])

render_text_pil(text, width, height, font_size, align, color) ==
    LET bbox == textbbox(text, font_size)
        text_w == bbox[3] - bbox[1]
        text_h == bbox[4] - bbox[2]
        x == IF align = "center" THEN (width - text_w) \div 2
             ELSE IF align = "right" THEN width - text_w - 4
             ELSE 4
        y == (height - text_h) \div 2
    IN  DrawText(text, width, height, font_size, x, y, color)

\* Pango layout of the given width: the text wraps by characters, each line
\* is aligned on its own and the first line starts at the top of the surface.
PangoLine(text, width, font_size, i) ==
    LET per_line == Max(1, width \div GlyphAdvance(font_size))
    IN  SubSeq(text, (i - 1) * per_line + 1, Min(Len(text), i * per_line))

PangoLineX(line, width, font_size, align) ==
    LET line_w == Len(line) * GlyphAdvance(font_size)
    IN  IF align = "center" THEN (width - line_w) \div 2
        ELSE IF align = "right" THEN width - line_w
        ELSE 0

\* Returns None when Pango is unavailable or the rendering raises (pango_raises)
render_text_pango(text, width, height, font_family, font_size, align, color, pango_raises) ==
    IF ~PANGO_AVAILABLE \/ pango_raises THEN None
    ELSE
    LET adv == GlyphAdvance(font_size)
        line_h == GlyphTop(font_size) + GlyphHeight(font_size)
        per_line == Max(1, width \div adv)
        n_lines == (Len(text) + per_line - 1) \div per_line
    IN  Array(width, height,
              [p \in Pixels(width, height) |->
                  LET i == (p[1] \div line_h) + 1
                      line == PangoLine(text, width, font_size, i)
                      x == PangoLineX(line, width, font_size, align)
                  IN  IF /\ i <= n_lines
                         /\ (p[1] % line_h) >= GlyphTop(font_size)
                         /\ x <= p[2] /\ p[2] < x + Len(line) * adv
                         /\ HasInk(line[((p[2] - x) \div adv) + 1])
                      THEN Opaque(color) ELSE Transparent])

\* rows and columns of the non-transparent pixels (np.where(alpha > 0))
InkRows(rgba) == {p[1] : p \in {q \in Pixels(rgba.w, rgba.h) : rgba.px[q][4] > 0}}
InkCols(rgba) == {p[2] : p \in {q \in Pixels(rgba.w, rgba.h) : rgba.px[q][4] > 0}}
SetMax(S) == CHOOSE m \in S : \A n \in S : n <= m
SetMin(S) == CHOOSE m \in S : \A n \in S : m <= n

-----------------------------------------------------------------------------
(* Text fitting *)

fit_padding == 6

\* the configured size in pixels, at least 12
max_fs(zone, dpi) == Max(12, _points_to_pixels(zone.text.font_size, dpi))
\* the floor: 8 pt in pixels, at least 8
min_fs(dpi) == Max(8, _points_to_pixels(8, dpi))

align_str(zone) ==
    IF zone.text.align = Align.CENTER THEN "center"
    ELSE IF zone.text.align = Align.RIGHT THEN "right" ELSE "left"

\* "if rgba is None: rgba = render_text_pil(...)"
PilIfNone(rgba, text, box_w, box_h, zone, fs, color) ==
    IF rgba = None THEN render_text_pil(text, box_w, box_h, fs, align_str(zone), color)
    ELSE rgba

\* one rendering of the search loop: Pango for Indic text, PIL otherwise or
\* when Pango returned None
RenderAt(text, box_w, box_h, zone, fs, color, use_pango, pango_raises) ==
    IF use_pango
    THEN PilIfNone(render_text_pango(text, box_w, box_h, zone.text.font_family, fs,
                                     align_str(zone), color, pango_raises),
                   text, box_w, box_h, zone, fs, color)
    ELSE render_text_pil(text, box_w, box_h, fs, align_str(zone), color)

\* the acceptance test of the loop on a rendered buffer: some ink, and the
\* ink's extent on the buffer within the box on both axes
Accepts(rgba, box_w, box_h) ==
    /\ InkRows(rgba) # {}
    /\ SetMax(InkRows(rgba)) - SetMin(InkRows(rgba)) + 1 <= box_h
    /\ SetMax(InkCols(rgba)) - SetMin(InkCols(rgba)) + 1 <= box_w

\* the loop's exits on one rendering: return it when accepted, else go on
\* with the next smaller size
RECURSIVE FitLoop(_, _, _, _, _, _, _, _, _, _)
FitStep(rgba, fs, lo, text, box_w, box_h, zone, color, use_pango, pango_raises) ==
    IF Accepts(rgba, box_w, box_h)
    THEN [accepted |-> TRUE, ran |-> TRUE, rgba |-> rgba, fs |-> fs]
    ELSE FitLoop(fs - 2, lo, text, box_w, box_h, zone, color, use_pango, pango_raises, rgba)

\* for fs in range(max_fs, min_fs - 1, -2): the first accepted rendering, or
\* the last rendering made (ran = FALSE when the range is empty)
FitLoop(fs, lo, text, box_w, box_h, zone, color, use_pango, pango_raises, last) ==
    IF fs < lo THEN [accepted |-> FALSE, ran |-> last # None, rgba |-> last, fs |-> 0]
    ELSE FitStep(RenderAt(text, box_w, box_h, zone, fs, color, use_pango, pango_raises),
                 fs, lo, text, box_w, box_h, zone, color, use_pango, pango_raises)

\* target_y of the content for the zone's vertical alignment
target_y(zone, box_h, content_h) ==
    IF zone.text.valign = VAlign.TOP THEN 0
    ELSE IF zone.text.valign = VAlign.BOTTOM THEN box_h - content_h
    ELSE (box_h - content_h) \div 2

\* new_rgba: the rows of best_rgba moved down by shift_y, clipped to the box
ShiftRows(best_rgba, box_h, shift_y) ==
    LET src_y_start == Max(0, 0 - shift_y)
        src_y_end == Min(box_h, box_h - shift_y)
        dst_y_start == Max(0, shift_y)
        dst_y_end == Min(box_h, box_h + shift_y)
        h_chunk == Min(src_y_end - src_y_start, dst_y_end - dst_y_start)
    IN  IF shift_y # 0 /\ h_chunk > 0
        THEN Array(best_rgba.w, best_rgba.h,
                   [p \in Pixels(best_rgba.w, best_rgba.h) |->
                       IF dst_y_start <= p[1] /\ p[1] < dst_y_start + h_chunk
                       THEN best_rgba.px[<<p[1] - dst_y_start + src_y_start, p[2]>>]
                       ELSE Transparent])
        ELSE best_rgba

\* GRAVITY / VERTICAL ALIGNMENT of the fallback rendering
Gravity(best_rgba, box_h, zone) ==
    IF InkRows(best_rgba) = {} THEN best_rgba
    ELSE ShiftRows(best_rgba, box_h,
                   target_y(zone, box_h,
                            SetMax(InkRows(best_rgba)) - SetMin(InkRows(best_rgba)) + 1)
                       - SetMin(InkRows(best_rgba)))

\* "Use min size anyway": Pango at the floor for Indic text, else the loop's
\* last rendering; PIL at the floor when that is None
FallbackRender(last, text, box_w, box_h, zone, dpi, color, use_pango, pango_raises) ==
    PilIfNone(IF use_pango
              THEN render_text_pango(text, box_w, box_h, zone.text.font_family,
                                     min_fs(dpi), align_str(zone), color, pango_raises)
              ELSE last,
              text, box_w, box_h, zone, min_fs(dpi), color)

\* what the function returns once the loop is over
FitResult(loop, text, box_w, box_h, zone, dpi, color, use_pango, pango_raises) ==
    IF loop.accepted THEN [exc |-> "none", rgba |-> loop.rgba, fs |-> loop.fs]
    \* rgba is read before any assignment: the range was empty and Pango is not used
    ELSE IF ~use_pango /\ ~loop.ran
         THEN [exc |-> "UnboundLocalError", rgba |-> None, fs |-> 0]
    ELSE [exc |-> "none",
          rgba |-> Gravity(FallbackRender(loop.rgba, text, box_w, box_h, zone, dpi, color,
                                          use_pango, pango_raises), box_h, zone),
          fs |-> min_fs(dpi)]

\* the search in a box of at least 10 x 10 pixels, with the parsed colour
FitInBox(text, box_w, box_h, zone, dpi, pango_raises, parsed, use_pango) ==
    IF parsed.exc # "none" THEN [exc |-> parsed.exc, rgba |-> None, fs |-> 0]
    ELSE FitResult(FitLoop(max_fs(zone, dpi), min_fs(dpi), text, box_w, box_h, zone,
                           parsed.rgb, use_pango, pango_raises, None),
                   text, box_w, box_h, zone, dpi, parsed.rgb, use_pango, pango_raises)

\* Returns [exc, rgba, fs]: (rgba, font size), or (None, 0) when the box is
\* too small; exc names the exception when the call raises.
fit_and_render_text(text, width, height, zone, dpi, pango_raises) ==
    IF width - fit_padding * 2 < 10 \/ height - fit_padding * 2 < 10
    THEN [exc |-> "none", rgba |-> None, fs |-> 0]
    ELSE FitInBox(text, width - fit_padding * 2, height - fit_padding * 2, zone, dpi,
                  pango_raises,
                  _hex_to_rgb(IF zone.text.color_hex # <<>> THEN zone.text.color_hex
                              ELSE BlackHex),
                  PANGO_AVAILABLE /\ _contains_indic(text))

-----------------------------------------------------------------------------
(* Main API: mask_zone_pixels *)

kernel_size == 15

\* FROSTED BLUR: the zone of the inpainted image replaced by its blurred version
FrostedBlur(img_inpainted, mask) ==
    LET img_blurred == GaussianBlur(img_inpainted, GaussianKernel_21_10)
    IN  Array(img_inpainted.w, img_inpainted.h,
              [p \in Pixels(img_inpainted.w, img_inpainted.h) |->
                  IF mask.px[p] > 0 THEN img_blurred.px[p] ELSE img_inpainted.px[p]])

\* FEATHER BLENDING: out = inpainted * alpha + original * (1 - alpha), alpha
\* the blurred mask, truncated to bytes
FeatherBlend(img_rgb, img_inpainted, mask) ==
    LET unit == KernelUnit * KernelUnit
        \* mask_float blurred, in units of 1/unit
        mask_blurred == Convolve([p \in Pixels(mask.w, mask.h) |-> mask.px[p] \div 255],
                                 mask.w, mask.h, GaussianKernel_9_2, TRUE)
    IN  Array(img_rgb.w, img_rgb.h,
              [p \in Pixels(img_rgb.w, img_rgb.h) |->
                  [c \in 1..3 |->
                      (img_inpainted.px[p][c] * mask_blurred[p]
                         + img_rgb.px[p][c] * (unit - mask_blurred[p])) \div unit]])

\* 3. AUTO / SOLID LOGIC (Fallback)
AutoErase(smart) == [img_inpainted |-> smart.out, strategy |-> "auto:" \o smart.how]

\* the inpainting step taking the zone's mode before its manual colour
EraseModeFirst(img_rgb, zone, mask, mask_expanded, manual) ==
    IF zone.mask.mode = MaskMode.MAGIC /\ OPENCV_AVAILABLE
    THEN [img_inpainted |->
             inpaint_telea(img_rgb, dilate(create_text_mask(img_rgb, mask), 5, 2)),
          strategy |-> "magic"]
    ELSE IF zone.mask.color_hex # <<>> /\ manual.exc = "none"
    THEN [img_inpainted |-> inpaint_color_fill(img_rgb, mask_expanded, manual.rgb),
          strategy |-> "manual"]
    ELSE AutoErase(inpaint_smart(img_rgb, mask_expanded))

\* the inpainting step with a strategy of its own for mode solid: the fill
\* with the estimated colour whatever the analysis says
EraseSolidFills(img_rgb, zone, mask, mask_expanded, manual) ==
    IF zone.mask.color_hex # <<>> /\ manual.exc = "none"
    THEN [img_inpainted |-> inpaint_color_fill(img_rgb, mask_expanded, manual.rgb),
          strategy |-> "manual"]
    ELSE IF zone.mask.mode = MaskMode.MAGIC /\ OPENCV_AVAILABLE
    THEN [img_inpainted |->
             inpaint_telea(img_rgb, dilate(create_text_mask(img_rgb, mask), 5, 2)),
          strategy |-> "magic"]
    ELSE IF zone.mask.mode = MaskMode.SOLID
    THEN [img_inpainted |->
             inpaint_color_fill(img_rgb, mask_expanded,
                                analyze_background(img_rgb, mask_expanded).color),
          strategy |-> "auto:fill"]
    ELSE AutoErase(inpaint_smart(img_rgb, mask_expanded))

\* the inpainting step with the manual colour as _hex_to_rgb gave it
EraseWith(img_rgb, zone, mask, mask_expanded, manual) ==
    \* 1. MANUAL OVERRIDE
    IF zone.mask.color_hex # <<>> /\ manual.exc = "none"
    THEN [img_inpainted |-> inpaint_color_fill(img_rgb, mask_expanded, manual.rgb),
          strategy |-> "manual"]
    \* 2. MAGIC ERASER
    ELSE IF zone.mask.mode = MaskMode.MAGIC /\ OPENCV_AVAILABLE
    THEN [img_inpainted |->
             inpaint_telea(img_rgb, dilate(create_text_mask(img_rgb, mask), 5, 2)),
          strategy |-> "magic"]
    ELSE AutoErase(inpaint_smart(img_rgb, mask_expanded))

\* the inpainting step without the try/except around the manual override:
\* the ValueError of _hex_to_rgb leaves mask_zone_pixels
EraseUncaught(img_rgb, zone, mask, mask_expanded) ==
    IF zone.mask.color_hex # <<>> /\ _hex_to_rgb(zone.mask.color_hex).exc # "none"
    THEN [img_inpainted |-> img_rgb, strategy |-> "ValueError"]
    ELSE EraseWith(img_rgb, zone, mask, mask_expanded, _hex_to_rgb(zone.mask.color_hex))

\* the inpainting step of mask_zone_pixels: [img_inpainted, strategy]
\* strategy: "manual", "magic", or "auto:fill" / "auto:telea"
Erase(img_rgb, zone, mask, mask_expanded) ==
    EraseWith(img_rgb, zone, mask, mask_expanded, _hex_to_rgb(zone.mask.color_hex))

\* the frosted blur and the feather blend applied to the inpainted image
Soften(img, mask, erased) ==
    [img |-> IF OPENCV_AVAILABLE
             THEN FeatherBlend(img, FrostedBlur(erased.img_inpainted, mask), mask)
             ELSE erased.img_inpainted,
     strategy |-> erased.strategy,
     img_inpainted |-> erased.img_inpainted,
     mask |-> mask]

\* the zone's mask grown by the 15 x 15 kernel, then erased and softened
EraseMask(img, zone, mask) ==
    Soften(img, mask,
           Erase(img, zone, mask,
                 IF OPENCV_AVAILABLE THEN dilate(mask, kernel_size, 1) ELSE mask))

\* mask_zone_pixels erasing whether or not the zone's mask is enabled
MaskRectIgnoringEnabled(img, zone, rect) ==
    IF ~is_valid(rect) \/ zone.mask.mode = MaskMode.NONE
    THEN [img |-> img, strategy |-> "none", img_inpainted |-> img,
          mask |-> create_mask(<<img.w, img.h>>, rect)]
    ELSE EraseMask(img, zone, create_mask(<<img.w, img.h>>, rect))

\* mask_zone_pixels once the pixel rectangle is known
MaskRect(img, zone, rect) ==
    IF ~is_valid(rect) \/ ~zone.mask.enabled \/ zone.mask.mode = MaskMode.NONE
    THEN [img |-> img, strategy |-> "none", img_inpainted |-> img,
          mask |-> create_mask(<<img.w, img.h>>, rect)]
    ELSE EraseMask(img, zone, create_mask(<<img.w, img.h>>, rect))

\* Returns [img, strategy, img_inpainted, mask]; strategy is "none" and img
\* is the input image itself when the zone is not erased.
mask_zone_pixels(img, zone, dpi) ==
    MaskRect(img, zone, zone_to_pixel_rect(<<img.w, img.h>>, zone, dpi))

-----------------------------------------------------------------------------
(* Main API: composite_text *)

\* composite_text once the text is fitted: the image unchanged when there is
\* no buffer, else the buffer composited under the zone's mask
CompositeFitted(img, rect, fit) ==
    IF fit.exc # "none" THEN [exc |-> fit.exc, img |-> None, drawn |-> FALSE]
    ELSE IF fit.rgba = None THEN [exc |-> "none", img |-> img, drawn |-> FALSE]
    ELSE [exc |-> "none",
          img |-> composite_strict(img, fit.rgba, rect,
                                   create_mask(<<img.w, img.h>>, rect)).out,
          drawn |-> TRUE]

\* composite_text of a stripped, non-empty text in the zone's pixel rectangle
CompositeInRect(img, zone, text, dpi, pango_raises, rect) ==
    IF ~is_valid(rect) THEN [exc |-> "none", img |-> img, drawn |-> FALSE]
    ELSE CompositeFitted(img, rect,
                         fit_and_render_text(text, RectWidth(rect), RectHeight(rect), zone,
                                             dpi, pango_raises))

\* composite_text of the stripped text
CompositeStripped(img, zone, text, dpi, pango_raises) ==
    IF text = <<>> THEN [exc |-> "none", img |-> img, drawn |-> FALSE]
    ELSE CompositeInRect(img, zone, text, dpi, pango_raises,
                         zone_to_pixel_rect(<<img.w, img.h>>, zone, dpi))

\* composite_text without its strip() of the text
CompositeTextNoStrip(img, zone, text, dpi, pango_raises) ==
    CompositeStripped(img, zone, text, dpi, pango_raises)

\* Returns [exc, img, drawn]: drawn tells whether composite_strict ran
composite_text(img, zone, text, dpi, pango_raises) ==
    CompositeStripped(img, zone, Strip(text), dpi, pango_raises)

-----------------------------------------------------------------------------
(* processor.py: strings.  A string is a sequence of characters, each a   *)
(* one-character string or the name of a code point ("U+0301", "NUL").     *)

\* str.lower() on the letters the model uses
LowerOf(ch) ==
    CASE ch = "A" -> "a" [] ch = "B" -> "b" [] ch = "D" -> "d" [] ch = "F" -> "f"
      [] ch = "N" -> "n" [] ch = "P" -> "p" [] OTHER -> ch
Lower(s) == [i \in 1..Len(s) |-> LowerOf(s[i])]

\* unicodedata.category(ch)[0]: Letter, Mark, Number, Control, or other
Letter == {"A", "B", "D", "F", "N", "P", "a", "b", "d", "e", "f", "g", "l", "m", "n", "o",
           "p", "s", "t", "u", "U+00E9", "U+0A95", "U+0928", "U+0AA8", "U+0AAE"}
Mark == {"U+0301", "U+0ABE"}
Number == {"0", "1", "2", "3", "4", "5", "6", "7", "8", "9", "U+00BD"}
\* ord(ch) < 32
Control == {"NUL", "\t", "\n"}
category(ch) ==
    IF ch \in Letter THEN "L" ELSE IF ch \in Mark THEN "M" ELSE IF ch \in Number THEN "N"
    ELSE IF ch \in Control THEN "C" ELSE IF ch = " " THEN "Z" ELSE "P"

\* unicodedata.normalize("NFC", s): a letter and the combining mark after it
\* become the precomposed letter
RECURSIVE NFC(_)
NFC(s) ==
    IF Len(s) < 2 THEN s
    ELSE IF s[1] = "e" /\ s[2] = "U+0301" THEN <<"U+00E9">> \o NFC(SubSeq(s, 3, Len(s)))
    ELSE <<s[1]>> \o NFC(Tail(s))

\* str(n) for 0 <= n <= 99
DigitOf(d) == CASE d = 0 -> "0" [] d = 1 -> "1" [] d = 2 -> "2" [] d = 3 -> "3" [] d = 4 -> "4"
                [] d = 5 -> "5" [] d = 6 -> "6" [] d = 7 -> "7" [] d = 8 -> "8" [] d = 9 -> "9"
Str(n) == IF n < 10 THEN <<DigitOf(n)>> ELSE <<DigitOf(n \div 10), DigitOf(n % 10)>>

\* needle in haystack
Contains(haystack, needle) ==
    \E i \in 1..(Len(haystack) - Len(needle) + 1) :
        SubSeq(haystack, i, i + Len(needle) - 1) = needle

\* _sanitize_filename without the test of the category
RECURSIVE KeepPrintable(_)
KeepPrintable(value) ==
    IF value = <<>> THEN <<>>
    ELSE IF Head(value) \in {"/", "\\", "NUL"} THEN KeepPrintable(Tail(value))
    ELSE IF Head(value) \in Control THEN KeepPrintable(Tail(value))
    ELSE <<Head(value)>> \o KeepPrintable(Tail(value))

\* the characters _sanitize_filename keeps, in order
RECURSIVE Keep(_)
Keep(value) ==
    IF value = <<>> THEN <<>>
    ELSE IF Head(value) \in {"/", "\\", "NUL"} THEN Keep(Tail(value))
    ELSE IF Head(value) \in Control THEN Keep(Tail(value))
    ELSE IF Head(value) \in {" ", "_", "-"} THEN <<Head(value)>> \o Keep(Tail(value))
    ELSE IF category(Head(value)) \in {"L", "M", "N"} THEN <<Head(value)>> \o Keep(Tail(value))
    ELSE Keep(Tail(value))

SanitizePrintable(value) == Strip(KeepPrintable(value))

_sanitize_filename(value) == Strip(Keep(value))

\* guest_data.get(col) or "": guest_data is a sequence of <<key, value>>
\* pairs in the dictionary's order
Get(guest_data, col) ==
    IF \E i \in 1..Len(guest_data) : guest_data[i][1] = col
    THEN guest_data[CHOOSE i \in 1..Len(guest_data) : guest_data[i][1] = col][2]
    ELSE <<>>

\* the zone ids of a mapping value: [str |-> id], [list |-> ids]; a value of
\* another type is passed over
ZoneIdsOf(zone_ids) ==
    IF "str" \in DOMAIN zone_ids THEN <<zone_ids.str>>
    ELSE IF "list" \in DOMAIN zone_ids THEN zone_ids.list
    ELSE <<>>

\* the first non-empty string of a sequence, "" when there is none
RECURSIVE FirstValue(_)
FirstValue(vals) ==
    IF vals = <<>> THEN <<>>
    ELSE IF Head(vals) # <<>> THEN Head(vals) ELSE FirstValue(Tail(vals))

NameZoneIds == {<<"g", "u", "e", "s", "t", "_", "n", "a", "m", "e">>, <<"n", "a", "m", "e">>,
                <<"f", "u", "l", "l", "n", "a", "m", "e">>,
                <<"f", "u", "l", "l", "_", "n", "a", "m", "e">>}
GujaratiName == <<"U+0AA8", "U+0ABE", "U+0AAE">>
preferred_headers ==
    <<GujaratiName, <<"n", "a", "m", "e">>, <<"f", "u", "l", "l", " ", "n", "a", "m", "e">>,
      <<"f", "u", "l", "l", "n", "a", "m", "e">>,
      <<"g", "u", "e", "s", "t", " ", "n", "a", "m", "e">>,
      <<"g", "u", "e", "s", "t", "_", "n", "a", "m", "e">>>>

\* the value of config.output_name_column, when set and non-empty
NameFromColumn(guest_data, output_name_column) ==
    IF Strip(output_name_column) # <<>> THEN Strip(Get(guest_data, Strip(output_name_column)))
    ELSE <<>>

\* per mapping entry: the column's value when one of its zones is a name zone
NamesFromMapping(guest_data, mapping) ==
    [i \in 1..Len(mapping) |->
        IF \E j \in 1..Len(ZoneIdsOf(mapping[i][2])) :
              Lower(ZoneIdsOf(mapping[i][2])[j]) \in NameZoneIds
        THEN Strip(Get(guest_data, mapping[i][1]))
        ELSE <<>>]

\* per preferred header, per item of guest_data: the value under that header
NamesFromHeaders(guest_data) ==
    [n \in 1..(Len(preferred_headers) * Len(guest_data)) |->
        IF Lower(Strip(guest_data[((n - 1) % Len(guest_data)) + 1][1]))
              = preferred_headers[((n - 1) \div Len(guest_data)) + 1]
        THEN Strip(guest_data[((n - 1) % Len(guest_data)) + 1][2])
        ELSE <<>>]

\* per item of guest_data: the value when the key holds "name"
NamesFromNameLike(guest_data) ==
    [i \in 1..Len(guest_data) |->
        IF \/ Contains(Lower(Strip(guest_data[i][1])), <<"n", "a", "m", "e">>)
           \/ Contains(guest_data[i][1], GujaratiName)
        THEN Strip(guest_data[i][2])
        ELSE <<>>]

\* _derive_output_name looking at the row's headers before the mapping
DeriveHeadersFirst(guest_data, mapping, index, output_name_column) ==
    FirstValue(<<NameFromColumn(guest_data, output_name_column)>>
               \o NamesFromHeaders(guest_data)
               \o NamesFromNameLike(guest_data)
               \o NamesFromMapping(guest_data, mapping)
               \o <<<<"g", "u", "e", "s", "t", "_">> \o Str(index + 1)>>)

_derive_output_name(guest_data, mapping, index, output_name_column) ==
    FirstValue(<<NameFromColumn(guest_data, output_name_column)>>
               \o NamesFromMapping(guest_data, mapping)
               \o NamesFromHeaders(guest_data)
               \o NamesFromNameLike(guest_data)
               \o <<<<"g", "u", "e", "s", "t", "_">> \o Str(index + 1)>>)

\* A filename template is a sequence of characters and replacement fields;
\* "{name}" is the field str.format(name=...) can fill.
DefaultTemplate == <<"{name}", ".", "p", "d", "f">>

RECURSIVE Substitute(_, _)
Substitute(template, name) ==
    IF template = <<>> THEN <<>>
    ELSE (IF Head(template) = "{name}" THEN name ELSE <<Head(template)>>)
             \o Substitute(Tail(template), name)

\* template.format(name=safe_name): [exc, s]
Format(template, name) ==
    IF \E i \in 1..Len(template) : template[i] = "{id}" THEN [exc |-> "KeyError", s |-> <<>>]
    ELSE IF \E i \in 1..Len(template) : template[i] = "{}"
    THEN [exc |-> "IndexError", s |-> <<>>]
    ELSE [exc |-> "none", s |-> Substitute(template, name)]

EndsWith(s, suffix) ==
    Len(s) >= Len(suffix) /\ SubSeq(s, Len(s) - Len(suffix) + 1, Len(s)) = suffix

\* the file name made of the derived name as it is, not sanitized
OutputFilenameRaw(guest_data, mapping, index, output_name_column, template) ==
    LET name_part == NFC(_derive_output_name(guest_data, mapping, index, output_name_column))
        formatted == Format(IF template # <<>> THEN template ELSE DefaultTemplate, name_part)
    IN  IF formatted.exc # "none" THEN [exc |-> formatted.exc, filename |-> <<>>]
        ELSE [exc |-> "none",
              filename |-> IF EndsWith(Lower(formatted.s), <<".", "p", "d", "f">>)
                           THEN formatted.s
                           ELSE formatted.s \o <<".", "p", "d", "f">>]

\* the file name of a row's output: [exc, filename]
OutputFilename(guest_data, mapping, index, output_name_column, template) ==
    LET name_part == NFC(_derive_output_name(guest_data, mapping, index, output_name_column))
        safe_name == IF _sanitize_filename(name_part) # <<>> THEN _sanitize_filename(name_part)
                     ELSE <<"g", "u", "e", "s", "t", "_">> \o Str(index + 1)
        formatted == Format(IF template # <<>> THEN template ELSE DefaultTemplate, safe_name)
    IN  IF formatted.exc # "none" THEN [exc |-> formatted.exc, filename |-> <<>>]
        ELSE [exc |-> "none",
              filename |-> IF EndsWith(Lower(formatted.s), <<".", "p", "d", "f">>)
                           THEN formatted.s
                           ELSE formatted.s \o <<".", "p", "d", "f">>]

-----------------------------------------------------------------------------
(* processor.py: BatchProcessor *)

\* zone_map.get(zone_id), zone_map = {z.zone_id: z for z in config.zones}:
\* the last zone of that id, or None
ZoneMapGet(zones, zone_id) ==
    IF \E i \in 1..Len(zones) : zones[i].zone_id = zone_id
    THEN zones[SetMax({i \in 1..Len(zones) : zones[i].zone_id = zone_id})]
    ELSE None

\* guest_data_norm: the values of the row in NFC
GuestNorm(guest_data) ==
    [i \in 1..Len(guest_data) |-> <<guest_data[i][1], NFC(guest_data[i][2])>>]

\* the (text_val, zone_id) pairs of the two loops of _process_single, in order
RECURSIVE Work(_, _)
Work(mapping, guest_data) ==
    IF mapping = <<>> THEN <<>>
    ELSE [j \in 1..Len(ZoneIdsOf(Head(mapping)[2])) |->
             [text_val |-> Strip(Get(guest_data, Head(mapping)[1])),
              zone_id |-> ZoneIdsOf(Head(mapping)[2])[j]]]
         \o Work(Tail(mapping), guest_data)

\* the range test without its lower bound
PageBeyondEnd(page_idx, n) == page_idx >= n

\* page_idx < 0 or page_idx >= len(images)
PageOutOfRange(page_idx, n) == page_idx < 0 \/ page_idx >= n

\* images[page_idx], a Python list index: a negative index counts from the end
PageAt(pages, page_idx) ==
    pages[IF page_idx < 0 THEN Len(pages) + page_idx + 1 ELSE page_idx + 1]

\* the write-back that puts img on every page
SetEveryPage(pages, page_idx, img) == [i \in 1..Len(pages) |-> img]

\* images[page_idx] = img
SetPage(pages, page_idx, img) ==
    [pages EXCEPT ![IF page_idx < 0 THEN Len(pages) + page_idx + 1 ELSE page_idx + 1] = img]

\* "if text_val: img = composite_text(img, zone, text_val, dpi)": [exc, img, drawn]
ApplyText(img, zone, text_val, dpi, pango_raises) ==
    IF text_val # <<>> THEN composite_text(img, zone, text_val, dpi, pango_raises)
    ELSE [exc |-> "none", img |-> img, drawn |-> FALSE]

\* process_single_guest up to the loops of _process_single: the working copy
\* of the base images is made
BeginRow ==
    /\ fn = ""
    /\ "guest_data" \in DOMAIN args
    /\ fn' = "_process_single"
    /\ images' = _base_images
    /\ work' = Work(args.mapping, GuestNorm(args.guest_data))
    /\ ret' = [step |-> "begin"]
    /\ UNCHANGED <<OPENCV_AVAILABLE, PANGO_AVAILABLE, args, exc, _base_images, output_dir,
                   calls, output_files>>

\* one pass of the inner loop that takes the page from the base images, not
\* from the working copy
ProcessZoneFromBase ==
    /\ fn = "_process_single"
    /\ work # <<>>
    /\ \E zone \in {ZoneMapGet(args.config.zones, Head(work).zone_id)} :
          IF zone = None
          THEN /\ ret' = [step |-> "zone", item |-> Head(work), outcome |-> "not found",
                          before |-> images]
               /\ work' = Tail(work)
               /\ UNCHANGED <<fn, exc, images>>
          ELSE IF PageOutOfRange(zone.page_number - 1, Len(images))
          THEN /\ ret' = [step |-> "zone", item |-> Head(work), outcome |-> "out of range",
                          before |-> images]
               /\ work' = Tail(work)
               /\ UNCHANGED <<fn, exc, images>>
          ELSE \E erased \in {mask_zone_pixels(PageAt(_base_images, zone.page_number - 1), zone,
                                                args.dpi).img} :
               \E r \in {ApplyText(erased, zone, Head(work).text_val, args.dpi,
                                    args.pango_raises)} :
                  IF r.exc # "none"
                  THEN /\ fn' = "raised"
                       /\ exc' = r.exc
                       /\ ret' = None
                       /\ work' = <<>>
                       /\ UNCHANGED images
                  ELSE /\ images' = SetPage(images, zone.page_number - 1, r.img)
                       /\ ret' = [step |-> "zone", item |-> Head(work), outcome |-> "applied",
                                  before |-> images, erased |-> erased, drawn |-> r.drawn]
                       /\ work' = Tail(work)
                       /\ UNCHANGED <<fn, exc>>
    /\ UNCHANGED <<OPENCV_AVAILABLE, PANGO_AVAILABLE, args, _base_images, output_dir,
                   calls, output_files>>

\* one pass of the inner loop: the zone is looked up, passed over when it is
\* unknown or its page is out of range, else erased and written
ProcessZone ==
    /\ fn = "_process_single"
    /\ work # <<>>
    /\ \E zone \in {ZoneMapGet(args.config.zones, Head(work).zone_id)} :
          IF zone = None
          THEN /\ ret' = [step |-> "zone", item |-> Head(work), outcome |-> "not found",
                          before |-> images]
               /\ work' = Tail(work)
               /\ UNCHANGED <<fn, exc, images>>
          ELSE IF PageOutOfRange(zone.page_number - 1, Len(images))
          THEN /\ ret' = [step |-> "zone", item |-> Head(work), outcome |-> "out of range",
                          before |-> images]
               /\ work' = Tail(work)
               /\ UNCHANGED <<fn, exc, images>>
          ELSE \E erased \in {mask_zone_pixels(PageAt(images, zone.page_number - 1), zone,
                                                args.dpi).img} :
               \E r \in {ApplyText(erased, zone, Head(work).text_val, args.dpi,
                                    args.pango_raises)} :
                  IF r.exc # "none"
                  THEN /\ fn' = "raised"
                       /\ exc' = r.exc
                       /\ ret' = None
                       /\ work' = <<>>
                       /\ UNCHANGED images
                  ELSE /\ images' = SetPage(images, zone.page_number - 1, r.img)
                       /\ ret' = [step |-> "zone", item |-> Head(work), outcome |-> "applied",
                                  before |-> images, erased |-> erased, drawn |-> r.drawn]
                       /\ work' = Tail(work)
                       /\ UNCHANGED <<fn, exc>>
    /\ UNCHANGED <<OPENCV_AVAILABLE, PANGO_AVAILABLE, args, _base_images, output_dir,
                   calls, output_files>>

\* the end of _process_single: the file name is derived and the pages are
\* written under it, replacing a file of that name
FinishRow ==
    /\ fn = "_process_single"
    /\ work = <<>>
    /\ \E out \in {OutputFilename(GuestNorm(args.guest_data), args.mapping, 0,
                                  args.config.output_name_column,
                                  args.config.output_filename_template)} :
          IF out.exc # "none"
          THEN /\ fn' = "raised"
               /\ exc' = out.exc
               /\ ret' = None
               /\ UNCHANGED output_dir
          ELSE /\ fn' = "done"
               /\ ret' = [step |-> "done", output_path |-> out.filename]
               /\ output_dir' = {f \in output_dir : f.name # out.filename}
                                   \cup {[name |-> out.filename, pages |-> images]}
               /\ UNCHANGED exc
    /\ UNCHANGED <<OPENCV_AVAILABLE, PANGO_AVAILABLE, args, _base_images, images, work,
                   calls, output_files>>

-----------------------------------------------------------------------------
(* BatchProcessor: construction, process_batch and the calls of one row.   *)
(* args.concurrent tells the two uses apart: process_batch runs its rows    *)
(* one after the other, with the row's index and a try/except around each; *)
(* otherwise the rows are calls of process_single_guest (index 0) that     *)
(* interleave zone by zone.                                                 *)

\* BatchProcessor.__init__ without the test that the base PDF exists
InitNoCheck(base_pdf_exists, pages) == [exc |-> "none", _base_images |-> pages]

\* BatchProcessor.__init__: [exc, _base_images]; the pages are those
\* pdf_to_images reads from the base PDF
__init__(base_pdf_exists, pages) ==
    IF ~base_pdf_exists THEN [exc |-> "FileNotFoundError", _base_images |-> <<>>]
    ELSE [exc |-> "none", _base_images |-> pages]

Construct ==
    /\ fn = ""
    /\ "guests" \in DOMAIN args
    /\ \E r \in {__init__(args.base_pdf_exists, args.pages)} :
          /\ fn' = IF r.exc = "none" THEN "__init__" ELSE "raised"
          /\ exc' = r.exc
          /\ _base_images' = r._base_images
    /\ UNCHANGED <<OPENCV_AVAILABLE, PANGO_AVAILABLE, args, ret, images, work, output_dir,
                   calls, output_files>>

\* the locals of a call of _process_single that has not begun
IdleCall == [pc |-> "idle", images |-> <<>>, work |-> <<>>, path |-> <<>>, exc |-> "none"]

\* process_batch is entered (output_files = []), or the callers of
\* process_single_guest are ready
BeginBatch ==
    /\ fn = "__init__"
    /\ fn' = IF args.concurrent THEN "process_single_guest" ELSE "process_batch"
    /\ calls' = [c \in 1..Len(args.guests) |-> IdleCall]
    /\ output_files' = <<>>
    /\ UNCHANGED <<OPENCV_AVAILABLE, PANGO_AVAILABLE, args, ret, exc, _base_images, images,
                   work, output_dir>>

\* the for loop of process_batch goes on only after a row that returned
MayStartAfterDone(c) ==
    IF args.concurrent \/ c = 1 THEN TRUE ELSE calls[c - 1].pc = "done"

\* the index counted from one
RowIndexFromOne(c) == IF args.concurrent THEN 0 ELSE c

\* the index _process_single is given: i of enumerate(guests), or 0
RowIndex(c) == IF args.concurrent THEN 0 ELSE c - 1

\* the for loop of process_batch reaches row c once the rows before are over
MayStart(c) ==
    IF args.concurrent \/ c = 1 THEN TRUE ELSE calls[c - 1].pc \in {"done", "raised"}

\* the row's working pages are taken from the call before it instead of
\* being copied from the base images
StartRowShared(c) ==
    /\ fn \in {"process_batch", "process_single_guest"}
    /\ calls[c].pc = "idle"
    /\ MayStart(c)
    /\ calls' = [calls EXCEPT ![c] =
                    [@ EXCEPT !.pc = "loop",
                              !.images = IF c > 1 /\ calls[c - 1].pc # "idle"
                                         THEN calls[c - 1].images ELSE _base_images,
                              !.work = Work(args.mapping, GuestNorm(args.guests[c]))]]
    /\ UNCHANGED <<OPENCV_AVAILABLE, PANGO_AVAILABLE, fn, args, ret, exc, _base_images,
                   images, work, output_dir, output_files>>

\* guest_data_norm and images = [img.copy() for img in self._base_images]
StartRow(c) ==
    /\ fn \in {"process_batch", "process_single_guest"}
    /\ calls[c].pc = "idle"
    /\ MayStart(c)
    /\ calls' = [calls EXCEPT ![c] =
                    [@ EXCEPT !.pc = "loop",
                              !.images = _base_images,
                              !.work = Work(args.mapping, GuestNorm(args.guests[c]))]]
    /\ UNCHANGED <<OPENCV_AVAILABLE, PANGO_AVAILABLE, fn, args, ret, exc, _base_images,
                   images, work, output_dir, output_files>>

\* the inner loop with zone_map[zone_id] for zone_map.get(zone_id): an
\* unknown zone id raises KeyError
RowZoneStrict(c) ==
    /\ fn \in {"process_batch", "process_single_guest"}
    /\ calls[c].pc = "loop"
    /\ calls[c].work # <<>>
    /\ \E zone \in {ZoneMapGet(args.config.zones, Head(calls[c].work).zone_id)} :
          IF zone = None
          THEN calls' = [calls EXCEPT ![c].pc = "raised", ![c].exc = "KeyError",
                                     ![c].work = <<>>]
          ELSE IF PageOutOfRange(zone.page_number - 1, Len(calls[c].images))
          THEN calls' = [calls EXCEPT ![c].work = Tail(@)]
          ELSE \E erased \in {mask_zone_pixels(PageAt(calls[c].images, zone.page_number - 1),
                                                zone, args.dpi).img} :
               \E r \in {ApplyText(erased, zone, Head(calls[c].work).text_val, args.dpi,
                                    args.pango_raises)} :
                  IF r.exc # "none"
                  THEN calls' = [calls EXCEPT ![c].pc = "raised", ![c].exc = r.exc,
                                             ![c].work = <<>>]
                  ELSE calls' = [calls EXCEPT
                                    ![c].images = SetPage(@, zone.page_number - 1, r.img),
                                    ![c].work = Tail(@)]
    /\ UNCHANGED <<OPENCV_AVAILABLE, PANGO_AVAILABLE, fn, args, ret, exc, _base_images,
                   images, work, output_dir, output_files>>

\* one pass of the inner loop of row c; an exception ends the row (caught
\* and printed by process_batch, raised to the caller of process_single_guest)
RowZone(c) ==
    /\ fn \in {"process_batch", "process_single_guest"}
    /\ calls[c].pc = "loop"
    /\ calls[c].work # <<>>
    /\ \E zone \in {ZoneMapGet(args.config.zones, Head(calls[c].work).zone_id)} :
          IF zone = None \/ PageOutOfRange(zone.page_number - 1, Len(calls[c].images))
          THEN calls' = [calls EXCEPT ![c].work = Tail(@)]
          ELSE \E erased \in {mask_zone_pixels(PageAt(calls[c].images, zone.page_number - 1),
                                                zone, args.dpi).img} :
               \E r \in {ApplyText(erased, zone, Head(calls[c].work).text_val, args.dpi,
                                    args.pango_raises)} :
                  IF r.exc # "none"
                  THEN calls' = [calls EXCEPT ![c].pc = "raised", ![c].exc = r.exc,
                                             ![c].work = <<>>]
                  ELSE calls' = [calls EXCEPT
                                    ![c].images = SetPage(@, zone.page_number - 1, r.img),
                                    ![c].work = Tail(@)]
    /\ UNCHANGED <<OPENCV_AVAILABLE, PANGO_AVAILABLE, fn, args, ret, exc, _base_images,
                   images, work, output_dir, output_files>>

\* the end of row c: the file is written under the derived name, replacing
\* a file of that name; process_batch appends the path to output_files
RowFinish(c) ==
    /\ fn \in {"process_batch", "process_single_guest"}
    /\ calls[c].pc = "loop"
    /\ calls[c].work = <<>>
    /\ \E out \in {OutputFilename(GuestNorm(args.guests[c]), args.mapping, RowIndex(c),
                                  args.config.output_name_column,
                                  args.config.output_filename_template)} :
          IF out.exc # "none"
          THEN /\ calls' = [calls EXCEPT ![c].pc = "raised", ![c].exc = out.exc]
               /\ UNCHANGED <<output_dir, output_files>>
          ELSE /\ calls' = [calls EXCEPT ![c].pc = "done", ![c].path = out.filename]
               /\ output_dir' = {f \in output_dir : f.name # out.filename}
                                   \cup {[name |-> out.filename, pages |-> calls[c].images]}
               /\ output_files' = IF args.concurrent THEN output_files
                                  ELSE Append(output_files, out.filename)
    /\ UNCHANGED <<OPENCV_AVAILABLE, PANGO_AVAILABLE, fn, args, ret, exc, _base_images,
                   images, work>>

\* process_batch returns output_files after the last row
EndBatch ==
    /\ fn = "process_batch"
    /\ \A c \in 1..Len(calls) : calls[c].pc \in {"done", "raised"}
    /\ fn' = "returned"
    /\ ret' = output_files
    /\ UNCHANGED <<OPENCV_AVAILABLE, PANGO_AVAILABLE, args, exc, rowvars>>

-----------------------------------------------------------------------------
(* Harness: zone_to_pixel_rect *)

\* resolutions whose scale dpi/72.0 is exact in binary floating point
GeomDpi == {36, 72, 108}
GeomCoord == (0 - GeomMaxNeg) .. GeomMaxPt

InitGeom ==
    /\ OPENCV_AVAILABLE = TRUE
    /\ PANGO_AVAILABLE = FALSE
    /\ fn = ""
    /\ \E w \in 1..GeomMaxDim, h \in {1, GeomMaxDim}, d \in GeomDpi,
          x \in GeomCoord, y \in {0 - 1, 1}, zw \in GeomCoord, zh \in {0 - GeomMaxNeg, 0, 3} :
          args = [img_size |-> <<w, h>>, dpi |-> d,
                  zone |-> Zone("z", 1, Rect(x, y, zw, zh), MaskConfigDefault, TextConfigDefault)]
    /\ ret = None
    /\ exc = "none"
    /\ NoProcessor

CallZoneToPixelRect ==
    /\ fn = ""
    /\ "img_size" \in DOMAIN args
    /\ fn' = "zone_to_pixel_rect"
    /\ ret' = zone_to_pixel_rect(args.img_size, args.zone, args.dpi)
    /\ UNCHANGED <<OPENCV_AVAILABLE, PANGO_AVAILABLE, args, exc, rowvars>>

\* create_mask((img.width, img.height), rect) on the rectangle just computed
CallCreateMask ==
    /\ fn = "zone_to_pixel_rect"
    /\ fn' = "create_mask"
    /\ ret' = [rect |-> ret, mask |-> create_mask(args.img_size, ret)]
    /\ UNCHANGED <<OPENCV_AVAILABLE, PANGO_AVAILABLE, args, exc, rowvars>>

NextGeom == CallZoneToPixelRect \/ CallCreateMask

SpecGeom == InitGeom /\ [][NextGeom]_vars

\* the nearest integer to n/d, ties to even, stated without the division
IsNearest(r, n, d) ==
    /\ 2 * (r * d - n) <= d
    /\ 2 * (n - r * d) <= d
    /\ (2 * (r * d - n) = d \/ 2 * (n - r * d) = d) => r % 2 = 0

InBounds(r, hi) == 0 <= r /\ r <= hi

\* C3: the rectangle zone_to_pixel_rect returns has 0 <= x0 <= x1 <= image
\* width and 0 <= y0 <= y1 <= image height, and of the two rounded template
\* coordinates of an axis each one that lies inside the image is returned
\* unchanged (as the lower endpoint if it is the smaller one).
C3_RectOrderedAndClamped ==
    fn = "zone_to_pixel_rect" =>
        LET z == args.zone.rect
            w == args.img_size[1]
            h == args.img_size[2]
        IN  /\ 0 <= ret.x0 /\ ret.x0 <= ret.x1 /\ ret.x1 <= w
            /\ 0 <= ret.y0 /\ ret.y0 <= ret.y1 /\ ret.y1 <= h
            /\ \A a \in 0..w : IsNearest(a, z.x * args.dpi, 72) => a \in {ret.x0, ret.x1}
            /\ \A a \in 0..w : IsNearest(a, (z.x + z.width) * args.dpi, 72) => a \in {ret.x0, ret.x1}
            /\ \A b \in 0..h : IsNearest(b, z.y * args.dpi, 72) => b \in {ret.y0, ret.y1}
            /\ \A b \in 0..h : IsNearest(b, (z.y + z.height) * args.dpi, 72) => b \in {ret.y0, ret.y1}

\* a zone with a negative origin, an inverted extent and a far edge beyond the page
C3_Witness ==
    /\ fn = "zone_to_pixel_rect"
    /\ args.zone.rect.x < 0
    /\ args.zone.rect.height < 0
    /\ (args.zone.rect.x + args.zone.rect.width) * args.dpi > 72 * args.img_size[1]
    /\ ret.x0 = 0 /\ ret.x1 = args.img_size[1]
    /\ ret.y1 = 1 /\ ret.y0 = 0

\* C25: create_mask returns a single-channel mask of the image's height and
\* width that is 255 at the pixels with x0 <= x < x1 and y0 <= y < y1 and 0
\* at every other pixel; it is all zero for a rectangle of zero width or
\* zero height.
C25_MaskIsTheRectangle ==
    fn = "create_mask" =>
        /\ ret.mask.w = args.img_size[1] /\ ret.mask.h = args.img_size[2]
        /\ DOMAIN ret.mask.px = (0 .. args.img_size[2] - 1) \X (0 .. args.img_size[1] - 1)
        /\ \A y \in 0 .. args.img_size[2] - 1, x \in 0 .. args.img_size[1] - 1 :
              ret.mask.px[<<y, x>>] =
                  IF /\ ret.rect.x0 <= x /\ x < ret.rect.x1
                     /\ ret.rect.y0 <= y /\ y < ret.rect.y1
                  THEN 255 ELSE 0
        /\ (ret.rect.x1 = ret.rect.x0 \/ ret.rect.y1 = ret.rect.y0) =>
              \A p \in DOMAIN ret.mask.px : ret.mask.px[p] = 0

\* a rectangle strictly inside a larger image: pixels of both values
C25_Witness ==
    /\ fn = "create_mask"
    /\ 0 < ret.rect.x0 /\ ret.rect.x0 < ret.rect.x1 /\ ret.rect.x1 < args.img_size[1]
    /\ ret.rect.y0 < ret.rect.y1
    /\ \E p \in DOMAIN ret.mask.px : ret.mask.px[p] = 255
    /\ \E p \in DOMAIN ret.mask.px : ret.mask.px[p] = 0

-----------------------------------------------------------------------------
(* Harness: mask_zone_pixels *)

Cream == <<240, 230, 200>>
Ink == <<30, 30, 30>>
Grey == <<200, 200, 200>>

\* page contents: a plain cream card, a plain white card, a striped
\* (textured) card, a cream card with dark strokes, and a white box on a
\* cream card
PagePixel(pattern, p) ==
    CASE pattern = "cream" -> Cream
      [] pattern = "white" -> White
      [] pattern = "stripes" -> IF p[2] % 2 = 0 THEN Ink ELSE Grey
      [] pattern = "text" -> IF p[2] % 3 = 0 /\ p[1] % 2 = 1 THEN Ink ELSE Cream
      [] pattern = "box" -> IF p[2] \in 3..10 THEN White ELSE Cream

Page(pattern, w, h) == Array(w, h, [p \in Pixels(w, h) |-> PagePixel(pattern, p)])
PagePatterns == {"cream", "white", "stripes", "text", "box"}

Red == Chars6("F", "F", "0", "0", "0", "0")
ShortBlue == <<"#", "0", "0", "F">>
NotHex == <<"#", "G", "G", "G">>
PartHex == <<"#", "F", "F", "0", "0", "G", "G">>

\* zone rectangles in points: inside the page with a margin, at the page's
\* corner, of zero area, and a single pixel far from the left edge
EraseRects == {Rect(5, 1, 3, 2), Rect(0, 0, 2, 1), Rect(4, 1, 0, 2), Rect(EraseW - 3, 1, 1, 1)}

InitErase ==
    /\ OPENCV_AVAILABLE \in BOOLEAN
    /\ PANGO_AVAILABLE = FALSE
    /\ fn = ""
    /\ \E pattern \in PagePatterns, r \in EraseRects, enabled \in BOOLEAN,
          mode \in {MaskMode.SOLID, MaskMode.AUTO, MaskMode.MAGIC, MaskMode.NONE},
          color_hex \in {NoColor, Red, ShortBlue, NotHex, PartHex} :
          args = [img |-> Page(pattern, EraseW, EraseH), dpi |-> 72,
                  zone |-> Zone("z", 1, r, MaskConfig(enabled, mode, color_hex),
                                TextConfigDefault)]
    /\ ret = None
    /\ exc = "none"
    /\ NoProcessor

CallMaskZonePixels ==
    /\ fn = ""
    /\ "img" \in DOMAIN args
    /\ fn' = "mask_zone_pixels"
    /\ ret' = mask_zone_pixels(args.img, args.zone, args.dpi)
    /\ UNCHANGED <<OPENCV_AVAILABLE, PANGO_AVAILABLE, args, exc, rowvars>>

NextErase == CallMaskZonePixels

SpecErase == InitErase /\ [][NextErase]_vars

\* the pixel rectangle of the zone of the call
ErasedRect == zone_to_pixel_rect(<<args.img.w, args.img.h>>, args.zone, args.dpi)
\* the zone is one the eraser works on: a rectangle with area, mask enabled,
\* mode not none
Erasing == is_valid(ErasedRect) /\ args.zone.mask.enabled /\ args.zone.mask.mode # MaskMode.NONE
\* the zone has a manual colour that parses
ManualColor == args.zone.mask.color_hex # <<>> /\ _hex_to_rgb(args.zone.mask.color_hex).exc = "none"
\* the pixels the manual fill covers: the rectangle grown by half the
\* 15 x 15 kernel on every side with OpenCV, the rectangle itself without
InGrownRect(p) ==
    IF OPENCV_AVAILABLE
    THEN InRect(p, PixelRect(ErasedRect.x0 - kernel_size \div 2, ErasedRect.y0 - kernel_size \div 2,
                             ErasedRect.x1 + kernel_size \div 2, ErasedRect.y1 + kernel_size \div 2))
    ELSE InRect(p, ErasedRect)

\* C2: mask_zone_pixels affects no pixel outside the zone's pixel rectangle:
\* every pixel of the returned image outside the rectangle equals the pixel
\* of the input image.
C2_NoPixelOutsideZoneChanges ==
    fn = "mask_zone_pixels" =>
        \A p \in Pixels(args.img.w, args.img.h) :
            ~InRect(p, ErasedRect) => ret.img.px[p] = args.img.px[p]

C7_ManualColorExact ==
    (fn = "mask_zone_pixels" /\ Erasing /\ ManualColor) =>
        \A p \in Pixels(args.img.w, args.img.h) :
            InRect(p, ErasedRect) => ret.img.px[p] = _hex_to_rgb(args.zone.mask.color_hex).rgb

\* C19: without OpenCV, mask_zone_pixels raises for no mask mode (solid,
\* auto, magic) and returns the image with exactly the zone's rectangle
\* filled with one colour: the Background Analyzer's estimate, or the manual
\* colour for a zone that has one.
C19_EraserFailsSoftly ==
    (fn = "mask_zone_pixels" /\ ~OPENCV_AVAILABLE /\ Erasing) =>
        /\ exc = "none"
        /\ ret.strategy \in {"manual", "auto:fill"}
        /\ ret.strategy = "manual" <=> ManualColor
        /\ \A p \in Pixels(args.img.w, args.img.h) :
              ret.img.px[p] =
                  IF ~InRect(p, ErasedRect) THEN args.img.px[p]
                  ELSE IF ManualColor THEN _hex_to_rgb(args.zone.mask.color_hex).rgb
                  ELSE analyze_background(args.img,
                                          create_mask(<<args.img.w, args.img.h>>, ErasedRect)).color

\* a magic-mode zone without a manual colour, erased by the fill without OpenCV
C19_Witness ==
    /\ fn = "mask_zone_pixels" /\ ~OPENCV_AVAILABLE /\ Erasing
    /\ args.zone.mask.mode = MaskMode.MAGIC
    /\ args.zone.mask.color_hex = <<>>
    /\ ret.strategy = "auto:fill"
    /\ ret.img # args.img

\* the zone's mask as the strategies get it: grown by the 15 x 15 kernel
\* with OpenCV
GrownMask ==
    IF OPENCV_AVAILABLE
    THEN dilate(create_mask(<<args.img.w, args.img.h>>, ErasedRect), kernel_size, 1)
    ELSE create_mask(<<args.img.w, args.img.h>>, ErasedRect)

\* the automatic strategy erased the zone of the call
AutoRan == Erasing /\ ~ManualColor /\ ~(args.zone.mask.mode = MaskMode.MAGIC /\ OPENCV_AVAILABLE)

\* variance below 10 (40 quarters) and channel sum at most 750
SolidNotWhite(bg) ==
    bg.variance < 40 /\ bg.color[1] + bg.color[2] + bg.color[3] <= 750

\* C23: the automatic strategy erases by the fill with the estimated colour
\* when the variance is below 10 and the colour is not near-white (channel
\* sum at most 750); in every other case it erases by diffusion inpainting
\* when OpenCV is available, so that with OpenCV the fill runs exactly in
\* the first case.
C23_AutoStrategyFollowsAnalysis ==
    (fn = "mask_zone_pixels" /\ AutoRan) =>
        \E bg \in {analyze_background(args.img, GrownMask)} :
            IF SolidNotWhite(bg)
            THEN /\ ret.strategy = "auto:fill"
                 /\ ret.img_inpainted = inpaint_color_fill(args.img, GrownMask, bg.color)
            ELSE OPENCV_AVAILABLE =>
                 /\ ret.strategy = "auto:telea"
                 /\ ret.img_inpainted = inpaint_telea(args.img, GrownMask)

\* with OpenCV, a cream card erased by the fill
C23_Witness ==
    /\ fn = "mask_zone_pixels" /\ AutoRan /\ OPENCV_AVAILABLE
    /\ args.zone.mask.mode = MaskMode.AUTO
    /\ args.img = Page("cream", EraseW, EraseH)
    /\ ret.strategy = "auto:fill"

\* the zone of the call with another mask mode
WithMode(mode) == [args.zone EXCEPT !.mask.mode = mode]
\* the zone of the call without its manual colour
WithoutColor == [args.zone EXCEPT !.mask.color_hex = NoColor]

\* C29: for the same image, zone geometry, enabled flag and manual colour,
\* mask_zone_pixels returns for mode solid what it returns for mode auto.
C29_SolidIsAuto ==
    (fn = "mask_zone_pixels" /\ args.zone.mask.mode = MaskMode.SOLID) =>
        ret = mask_zone_pixels(args.img, WithMode(MaskMode.AUTO), args.dpi)

\* a solid-mode zone on a white card, erased by diffusion
C29_Witness ==
    /\ fn = "mask_zone_pixels" /\ Erasing /\ OPENCV_AVAILABLE
    /\ args.zone.mask.mode = MaskMode.SOLID
    /\ args.zone.mask.color_hex = <<>>
    /\ args.img = Page("white", EraseW, EraseH)
    /\ ret.strategy = "auto:telea"

\* the manual colour of the call passes MaskConfig.validate_hex (it starts
\* with "#" and has length 4 or 7) and is not made of hex digits
UnparsedColor ==
    /\ args.zone.mask.color_hex # <<>>
    /\ Head(args.zone.mask.color_hex) = "#"
    /\ Len(args.zone.mask.color_hex) \in {4, 7}
    /\ \E i \in 2..Len(args.zone.mask.color_hex) :
          args.zone.mask.color_hex[i] \notin {"0", "1", "2", "3", "4", "5", "6", "7", "8", "9",
                                              "A", "B", "C", "D", "E", "F"}

\* C30: a manual colour that passes validation and does not parse never
\* makes mask_zone_pixels raise: the zone is erased by the magic eraser when
\* that is the mode (and OpenCV is there), by the automatic strategy
\* otherwise, as it is without a manual colour.
C30_UnparsedColorFallsThrough ==
    (fn = "mask_zone_pixels" /\ Erasing /\ UnparsedColor) =>
        /\ exc = "none"
        /\ ret.strategy =
              IF args.zone.mask.mode = MaskMode.MAGIC /\ OPENCV_AVAILABLE THEN "magic"
              ELSE IF SolidNotWhite(analyze_background(args.img, GrownMask)) \/ ~OPENCV_AVAILABLE
              THEN "auto:fill" ELSE "auto:telea"
        /\ ret = mask_zone_pixels(args.img, WithoutColor, args.dpi)

\* a magic-mode zone whose colour fails at its last channel
C30_Witness ==
    /\ fn = "mask_zone_pixels" /\ Erasing /\ UnparsedColor
    /\ OPENCV_AVAILABLE
    /\ args.zone.mask.color_hex = PartHex
    /\ args.zone.mask.mode = MaskMode.MAGIC
    /\ ret.strategy = "magic"
    /\ ret.img # args.img

-----------------------------------------------------------------------------
(* Harness: fit_and_render_text *)

\* a text of n ink characters
Letters(n) == [i \in 1..n |-> "A"]

\* a single letter, a long word, two letters far apart, and a Gujarati word
FitTexts == {Letters(1), Letters(FitMaxLen), <<"A", " ", " ", " ", " ", "B">>,
             <<"U+0A95", "U+0A95", "A">>}

InitFit ==
    /\ OPENCV_AVAILABLE = TRUE
    /\ PANGO_AVAILABLE \in BOOLEAN
    /\ fn = ""
    /\ \E text \in FitTexts, width \in {20, 22, FitMaxW}, height \in {21, 22, FitMaxH},
          font_size \in {6, 12, 20}, d \in {72, 144},
          align \in {Align.LEFT, Align.CENTER, Align.RIGHT},
          valign \in {VAlign.TOP, VAlign.MIDDLE, VAlign.BOTTOM},
          pango_raises \in BOOLEAN :
          /\ pango_raises => PANGO_AVAILABLE
          /\ args = [text |-> text, width |-> width, height |-> height, dpi |-> d,
                     pango_raises |-> pango_raises,
                     zone |-> Zone("z", 1, Rect(0, 0, width, height), MaskConfigDefault,
                                   TextConfig(font_size, BlackHex, align, valign))]
    /\ ret = None
    /\ exc = "none"
    /\ NoProcessor

CallFitAndRenderText ==
    /\ fn = ""
    /\ "width" \in DOMAIN args
    /\ fn' = "fit_and_render_text"
    /\ \E r \in {fit_and_render_text(args.text, args.width, args.height, args.zone,
                                    args.dpi, args.pango_raises)} :
          /\ ret' = [rgba |-> r.rgba, fs |-> r.fs]
          /\ exc' = r.exc
    /\ UNCHANGED <<OPENCV_AVAILABLE, PANGO_AVAILABLE, args, rowvars>>

NextFit == CallFitAndRenderText

SpecFit == InitFit /\ [][NextFit]_vars

\* the sizes the search tries: range(max_fs, min_fs - 1, -2)
TriedSizes == {fs \in min_fs(args.dpi) .. max_fs(args.zone, args.dpi) :
                  (max_fs(args.zone, args.dpi) - fs) % 2 = 0}
\* the text's ink box at a size is within the interior box on both axes
FitsInterior(fs) ==
    /\ textbbox(args.text, fs)[3] - textbbox(args.text, fs)[1] <= args.width - fit_padding * 2
    /\ textbbox(args.text, fs)[4] - textbbox(args.text, fs)[2] <= args.height - fit_padding * 2

\* C8: fit_and_render_text returns without raising, with a font size that is
\* at least the floor max(8, pixels of 8 pt) and at most the ceiling, the
\* configured size in pixels.
C8_FitReturnsSizeWithinBounds ==
    fn = "fit_and_render_text" =>
        /\ exc = "none"
        /\ min_fs(args.dpi) <= ret.fs
        /\ ret.fs <= max_fs(args.zone, args.dpi)

\* C10: the search accepts the largest tried size at which the text's ink box
\* fits within the interior box on both axes; a size at which the text is
\* wider or taller than the interior box is rejected (PIL rendering).
C10_LargestFittingSizeAccepted ==
    (/\ fn = "fit_and_render_text" /\ exc = "none" /\ ret.rgba # None
     /\ ~(PANGO_AVAILABLE /\ _contains_indic(args.text))) =>
        IF \E fs \in TriedSizes : FitsInterior(fs)
        THEN ret.fs = SetMax({fs \in TriedSizes : FitsInterior(fs)})
        ELSE ret.fs = min_fs(args.dpi)

\* the row the ink's top belongs at for the zone's vertical alignment, in an
\* interior box of the call's height
PlacedTop(ink_h) ==
    CASE args.zone.text.valign = VAlign.TOP -> 0
      [] args.zone.text.valign = VAlign.MIDDLE -> (args.height - fit_padding * 2 - ink_h) \div 2
      [] args.zone.text.valign = VAlign.BOTTOM -> args.height - fit_padding * 2 - ink_h

\* C11: whatever size the search settles on, the ink bounding box of the
\* buffer fit_and_render_text returns has its top at row 0 for top, at
\* (interior height - ink height) div 2 for middle and at interior height -
\* ink height for bottom.
C11_InkPlacedPerValign ==
    (/\ fn = "fit_and_render_text" /\ exc = "none" /\ ret.rgba # None
     /\ InkRows(ret.rgba) # {}) =>
        SetMin(InkRows(ret.rgba))
            = PlacedTop(SetMax(InkRows(ret.rgba)) - SetMin(InkRows(ret.rgba)) + 1)

-----------------------------------------------------------------------------
(* Harness: composite_strict and composite_text *)

\* text buffers: opaque, half transparent, and opaque with a transparent
\* first column
Buffer(kind, w, h) ==
    Array(w, h, [p \in Pixels(w, h) |->
                    CASE kind = "opaque" -> <<10, 20, 30, 255>>
                      [] kind = "half" -> <<10, 20, 30, 128>>
                      [] kind = "edge" -> IF p[2] = 0 THEN Transparent ELSE <<10, 20, 30, 255>>])

\* masks of the page's shape: every pattern of columns, the same on all rows
\* or inverted on the odd rows; and one mask of another shape
CompMasks ==
    {Array(CompW, CompH,
           [p \in Pixels(CompW, CompH) |->
               IF flip /\ p[1] % 2 = 1 THEN 255 - cols[p[2]] ELSE cols[p[2]]]) :
        cols \in [0..(CompW - 1) -> {0, 255}], flip \in BOOLEAN}
        \cup {Array(CompW + 1, CompH, [p \in Pixels(CompW + 1, CompH) |-> 255])}

CompRects == {PixelRect(0, 0, CompW, CompH), PixelRect(1, 0, 2, 1), PixelRect(0 - 8, 0 - 7, 1, 1)}

InitCompStrict ==
    \E pattern \in {"stripes", "cream"}, kind \in {"opaque", "half", "edge"},
       tw \in {1, 2, CompW + 1}, th \in {1, CompH}, rect \in CompRects, mask \in CompMasks :
       args = [page_rgb |-> Page(pattern, CompW, CompH), text_rgba |-> Buffer(kind, tw, th),
               rect |-> rect, mask |-> mask]

\* zones in points: interior of exactly 10 x 10 pixels at 72 dpi, the whole
\* page, too small for text, of zero area, and beyond the page
TextRects == {Rect(1, 1, 22, 22), Rect(0, 0, TextW, TextH), Rect(2, 2, 20, 21),
              Rect(3, 3, 0, 5), Rect(TextW + 6, TextH + 6, 5, 5)}

TextTexts == {<<>>, <<" ">>, <<"A">>, <<" ", "A", "B", " ">>, Letters(FitMaxLen),
              <<"U+0A95", "U+0A95", "A">>}

InitCompText ==
    \E pattern \in {"stripes"}, r \in TextRects, text \in TextTexts,
       font_size \in {6, 12}, d \in {72, 144}, align \in {Align.LEFT, Align.CENTER},
       valign \in {VAlign.MIDDLE}, pango_raises \in BOOLEAN :
       /\ pango_raises => PANGO_AVAILABLE
       /\ args = [img |-> Page(pattern, TextW, TextH), text |-> text, dpi |-> d,
                  pango_raises |-> pango_raises,
                  zone |-> Zone("z", 1, r, MaskConfigDefault,
                                TextConfig(font_size, BlackHex, align, valign))]

InitComp ==
    /\ OPENCV_AVAILABLE = TRUE
    /\ PANGO_AVAILABLE \in BOOLEAN
    /\ fn = ""
    /\ (InitCompStrict /\ ~PANGO_AVAILABLE) \/ InitCompText
    /\ ret = None
    /\ exc = "none"
    /\ NoProcessor

CallCompositeStrict ==
    /\ fn = ""
    /\ "page_rgb" \in DOMAIN args
    /\ fn' = "composite_strict"
    /\ \E r \in {composite_strict(args.page_rgb, args.text_rgba, args.rect, args.mask)} :
          /\ ret' = r.out
          /\ exc' = r.exc
    /\ UNCHANGED <<OPENCV_AVAILABLE, PANGO_AVAILABLE, args, rowvars>>

CallCompositeText ==
    /\ fn = ""
    /\ "text" \in DOMAIN args
    /\ fn' = "composite_text"
    /\ \E r \in {composite_text(args.img, args.zone, args.text, args.dpi,
                               args.pango_raises)} :
          /\ ret' = [img |-> r.img, drawn |-> r.drawn]
          /\ exc' = r.exc
    /\ UNCHANGED <<OPENCV_AVAILABLE, PANGO_AVAILABLE, args, rowvars>>

NextComp == CallCompositeStrict \/ CallCompositeText

SpecComp == InitComp /\ [][NextComp]_vars

\* C1: the image composite_strict returns equals the input page at every
\* pixel whose mask value is 0, whatever offset and blend were computed; and
\* the image composite_text returns equals its input image at every pixel
\* outside the zone's pixel rectangle.
C1_ZeroBleed ==
    /\ (fn = "composite_strict" /\ exc = "none") =>
          \A p \in Pixels(args.page_rgb.w, args.page_rgb.h) :
              args.mask.px[p] = 0 => ret.px[p] = args.page_rgb.px[p]
    /\ (fn = "composite_text" /\ exc = "none") =>
          /\ SameShape(ret.img, args.img)
          /\ \A p \in Pixels(args.img.w, args.img.h) :
                ~InRect(p, zone_to_pixel_rect(<<args.img.w, args.img.h>>, args.zone, args.dpi))
                    => ret.img.px[p] = args.img.px[p]

\* C9: for non-empty text and a zone with a valid pixel rectangle,
\* composite_text gets a rendered buffer from the fitter and draws it; the
\* text is never omitted.
C9_RequiredTextDrawn ==
    (/\ fn = "composite_text"
     /\ Strip(args.text) # <<>>
     /\ is_valid(zone_to_pixel_rect(<<args.img.w, args.img.h>>, args.zone, args.dpi))) =>
        exc = "none" /\ ret.drawn

\* composite_strict pasted ink over a pixel outside the mask, which kept its
\* value, and changed a pixel inside the mask
C1_Witness ==
    /\ fn = "composite_strict" /\ exc = "none"
    /\ LET off == PasteOffset(args.page_rgb, args.text_rgba, args.rect)
           canvas == Canvas(args.page_rgb, args.text_rgba, off)
       IN  /\ \E p \in Pixels(CompW, CompH) :
                /\ args.mask.px[p] = 0
                /\ Blended(args.page_rgb, canvas, p) # args.page_rgb.px[p]
                /\ ret.px[p] = args.page_rgb.px[p]
           /\ \E p \in Pixels(CompW, CompH) :
                args.mask.px[p] = 255 /\ ret.px[p] # args.page_rgb.px[p]

\* the buffer sits at offset off inside the rectangle and inside the image
BufferInside(buffer, off, rect, img) ==
    /\ rect.x0 <= off.x_off /\ off.x_off + buffer.w <= rect.x1
    /\ rect.y0 <= off.y_off /\ off.y_off + buffer.h <= rect.y1
    /\ 0 <= off.x_off /\ off.x_off + buffer.w <= img.w
    /\ 0 <= off.y_off /\ off.y_off + buffer.h <= img.h

\* the zone's pixel rectangle brought in by 6 pixels on every side
Interior(rect) == PixelRect(rect.x0 + 6, rect.y0 + 6, rect.x1 - 6, rect.y1 - 6)

\* C24: when composite_text composites a rendered buffer, the buffer has
\* the size of the zone less 6 pixels of padding per side, its paste offset
\* is (x0 + 6, y0 + 6), it lies inside the zone's pixel rectangle and inside
\* the image, and the image changes inside the zone's interior only.
C24_BufferPastedInInterior ==
    (fn = "composite_text" /\ exc = "none" /\ ret.drawn) =>
        \E rect \in {zone_to_pixel_rect(<<args.img.w, args.img.h>>, args.zone, args.dpi)} :
        \E buffer \in {fit_and_render_text(Strip(args.text), rect.x1 - rect.x0,
                                            rect.y1 - rect.y0, args.zone, args.dpi,
                                            args.pango_raises).rgba} :
        \E off \in {PasteOffset(args.img, buffer, rect)} :
            /\ buffer.w = rect.x1 - rect.x0 - 12
            /\ buffer.h = rect.y1 - rect.y0 - 12
            /\ off = [x_off |-> rect.x0 + 6, y_off |-> rect.y0 + 6]
            /\ BufferInside(buffer, off, rect, args.img)
            /\ \A p \in Pixels(args.img.w, args.img.h) :
                  ret.img.px[p] # args.img.px[p] => InRect(p, Interior(rect))

\* a text drawn in a zone that covers the whole page
C24_Witness ==
    /\ fn = "composite_text" /\ exc = "none" /\ ret.drawn
    /\ args.zone.rect = Rect(0, 0, TextW, TextH)
    /\ args.dpi = 72
    /\ ret.img # args.img

-----------------------------------------------------------------------------
(* Harness: erase-then-recolor, mask_zone_pixels followed by composite_text *)

\* the number of composite_text passes after the erasure
MaxPasses == 2

InitPass ==
    /\ OPENCV_AVAILABLE \in BOOLEAN
    /\ PANGO_AVAILABLE = FALSE
    /\ fn = ""
    /\ \E r \in {Rect(1, 1, 22, 22), Rect(3, 3, 0, 5)}, d \in {72, 144},
          text \in {<<>>, <<" ">>, <<" ", "\t", "\n">>, <<"A">>},
          mask \in {MaskConfigDefault, MaskConfig(TRUE, MaskMode.SOLID, Red),
                    MaskConfig(TRUE, MaskMode.NONE, NoColor)} :
          args = [recolor |-> TRUE, img |-> Page("stripes", TextW, TextH), text |-> text,
                  dpi |-> d, pango_raises |-> FALSE,
                  zone |-> Zone("z", 1, r, mask,
                                TextConfig(6, BlackHex, Align.CENTER, VAlign.MIDDLE))]
    /\ ret = None
    /\ exc = "none"
    /\ NoProcessor

\* img = mask_zone_pixels(img, zone, dpi)
ErasePass ==
    /\ fn = ""
    /\ "recolor" \in DOMAIN args
    /\ fn' = "mask_zone_pixels"
    /\ \E erased \in {mask_zone_pixels(args.img, args.zone, args.dpi).img} :
          ret' = [img |-> erased, erased |-> erased, passes |-> 0, drawn |-> FALSE]
    /\ UNCHANGED <<OPENCV_AVAILABLE, PANGO_AVAILABLE, args, exc, rowvars>>

\* img = composite_text(img, zone, text, dpi)
TextPass ==
    /\ fn \in {"mask_zone_pixels", "composite_text"}
    /\ "recolor" \in DOMAIN args
    /\ ret.passes < MaxPasses
    /\ \E r \in {composite_text(ret.img, args.zone, args.text, args.dpi, args.pango_raises)} :
          IF r.exc # "none"
          THEN /\ fn' = "raised"
               /\ exc' = r.exc
               /\ UNCHANGED ret
          ELSE /\ fn' = "composite_text"
               /\ ret' = [ret EXCEPT !.img = r.img, !.passes = @ + 1, !.drawn = r.drawn]
               /\ UNCHANGED exc
    /\ UNCHANGED <<OPENCV_AVAILABLE, PANGO_AVAILABLE, args, rowvars>>

NextPass == ErasePass \/ TextPass

SpecPass == InitPass /\ [][NextPass]_vars

\* the text of the call is empty or holds whitespace only
BlankText == \A i \in 1..Len(args.text) : args.text[i] \in {" ", "\t", "\n"}

\* C12: composite_text with empty or whitespace-only text does not raise,
\* renders nothing and returns its input image; so after an erasure every
\* no-text pass, the first and the second, leaves the erased image as the
\* eraser returned it.
C12_EmptyTextIsNoOp ==
    ("recolor" \in DOMAIN args /\ BlankText) =>
        /\ fn # "raised"
        /\ fn = "composite_text" =>
              /\ ~ret.drawn
              /\ ret.img = ret.erased
              /\ ret.erased = mask_zone_pixels(args.img, args.zone, args.dpi).img

\* a zone was erased, and two passes of whitespace-only text have run
C12_Witness ==
    /\ fn = "composite_text"
    /\ "recolor" \in DOMAIN args
    /\ args.text = <<" ", "\t", "\n">>
    /\ ret.passes = MaxPasses
    /\ ret.erased # args.img
    /\ ret.img = ret.erased

-----------------------------------------------------------------------------
(* Harness: BatchProcessor.process_single_guest *)

NameKey == <<"N", "a", "m", "e">>
NoteKey == <<"N", "o", "t", "e">>
CityKey == <<"c", "i", "t", "y">>
NameZone == <<"n", "a", "m", "e">>
FarZone == <<"f", "a", "r">>
FlatZone == <<"f", "l", "a", "t">>
GhostZone == <<"g", "o", "n", "e">>
NoteZone == <<"n", "o", "t", "e">>

\* the zones of the configuration: a name zone that holds a text, a zone on
\* page far_page (a page the document may not have), a zone of zero area
\* and a small zone on the last page, erased and too small for a text
RowZones(far_page, mask, n_pages) ==
    <<Zone(NameZone, 1, Rect(1, 0, 22, RowH), mask, TextConfigDefault),
      Zone(FarZone, far_page, Rect(1, 0, 22, RowH), MaskConfig(TRUE, MaskMode.SOLID, Red),
           TextConfigDefault),
      Zone(FlatZone, 1, Rect(3, 3, 0, 5), MaskConfig(TRUE, MaskMode.SOLID, Red),
           TextConfigDefault),
      Zone(NoteZone, n_pages, Rect(2, 2, 5, 5), MaskConfig(TRUE, MaskMode.SOLID, ShortBlue),
           TextConfigDefault)>>

\* the column mapping: a list of zones, a single zone, a value of another type
RowMapping ==
    <<<<NameKey, [list |-> <<FarZone, FlatZone, GhostZone, NameZone>>]>>,
      <<NoteKey, [str |-> NoteZone]>>,
      <<CityKey, [other |-> TRUE]>>>>

\* file name settings: the defaults on documents of one and of three pages,
\* a name column with a bare template, and a template with a field format()
\* cannot fill
RowOutputs ==
    {[output_name_column |-> <<>>, output_filename_template |-> <<>>, n_pages |-> 1],
     [output_name_column |-> <<>>, output_filename_template |-> <<>>, n_pages |-> 3],
     [output_name_column |-> NoteKey, output_filename_template |-> <<"{name}">>, n_pages |-> 2],
     [output_name_column |-> <<>>, output_filename_template |-> <<"{id}", "{name}">>,
      n_pages |-> 1]}

InitRow ==
    /\ OPENCV_AVAILABLE \in BOOLEAN
    /\ PANGO_AVAILABLE = FALSE
    /\ fn = ""
    /\ \E far_page \in {0, 3}, o \in RowOutputs, text \in {<<"A", " ">>, <<>>},
          mask \in {MaskConfigDefault, MaskConfig(TRUE, MaskMode.MAGIC, Red),
                    MaskConfig(TRUE, MaskMode.NONE, Red),
                    MaskConfig(FALSE, MaskMode.SOLID, Red)} :
          /\ OPENCV_AVAILABLE => o.output_filename_template = <<>>
          /\ o.n_pages = 3 => mask = MaskConfigDefault
          /\ args = [config |-> [zones |-> RowZones(far_page, mask, o.n_pages),
                                 output_name_column |-> o.output_name_column,
                                 output_filename_template |-> o.output_filename_template],
                     dpi |-> 72, pango_raises |-> FALSE,
                     guest_data |-> <<<<NameKey, text>>, <<NoteKey, <<"B">>>>>>,
                     mapping |-> RowMapping]
          /\ _base_images = [i \in 1..o.n_pages |->
                                Page(IF i = 1 THEN "stripes" ELSE "cream", RowW, RowH)]
    /\ ret = None
    /\ exc = "none"
    /\ images = <<>>
    /\ work = <<>>
    /\ output_dir = {}
    /\ calls = <<>>
    /\ output_files = <<>>

NextRow == BeginRow \/ ProcessZone \/ FinishRow

SpecRow == InitRow /\ [][NextRow]_vars

\* the zone's page number is none of the document's pages 1..n
PageMissing(zone) == zone.page_number \notin 1..Len(_base_images)

\* the zone of a pair is configured, and its page is out of range or its
\* pixel rectangle on that page has no area
IsBadZone(zone_id) ==
    \E zone \in {ZoneMapGet(args.config.zones, zone_id)} :
        /\ zone # None
        /\ \/ PageMissing(zone)
           \/ ~is_valid(zone_to_pixel_rect(<<RowW, RowH>>, zone, args.dpi))

\* the pages a row ends with when the pairs are applied one after the other:
\* [exc, images]
RECURSIVE RunRow(_, _)
RunZone(pages, items, zone) ==
    IF zone = None \/ PageMissing(zone)
    THEN RunRow(pages, Tail(items))
    ELSE \* the page erased, then the text drawn
         (LET r == ApplyText(mask_zone_pixels(PageAt(pages, zone.page_number - 1), zone,
                                              args.dpi).img,
                             zone, Head(items).text_val, args.dpi, args.pango_raises)
          IN  IF r.exc # "none" THEN [exc |-> r.exc, images |-> pages]
              ELSE RunRow(SetPage(pages, zone.page_number - 1, r.img), Tail(items)))
RunRow(pages, items) ==
    IF items = <<>> THEN [exc |-> "none", images |-> pages]
    ELSE RunZone(pages, items, ZoneMapGet(args.config.zones, Head(items).zone_id))

\* the pairs of the row without those of bad zones
GoodWork ==
    SelectSeq(Work(args.mapping, GuestNorm(args.guest_data)),
              LAMBDA item : ~IsBadZone(item.zone_id))

\* C4: a mapped zone whose page number is out of range, or whose pixel
\* rectangle has zero area, changes no pixel of any page and raises no
\* error; the row goes on with the zones that remain, and what it writes is
\* what the row without those zones writes.
C4_BadZoneIsSkipped ==
    /\ (fn = "_process_single" /\ ret.step = "zone" /\ IsBadZone(ret.item.zone_id)) =>
          images = ret.before /\ exc = "none"
    /\ fn = "done" =>
          /\ RunRow(_base_images, GoodWork).exc = "none"
          /\ images = RunRow(_base_images, GoodWork).images
          /\ \E f \in output_dir : f.name = ret.output_path /\ f.pages = images
    /\ fn = "raised" =>
          \/ exc = RunRow(_base_images, GoodWork).exc
          \/ /\ RunRow(_base_images, GoodWork).exc = "none"
             /\ exc = OutputFilename(GuestNorm(args.guest_data), args.mapping, 0,
                                     args.config.output_name_column,
                                     args.config.output_filename_template).exc

\* a row with a zone on a missing page and a zone of zero area has written
\* its file, with the text of the zone that comes after them drawn
C4_Witness ==
    /\ fn = "done"
    /\ \E i \in 1..Len(Work(args.mapping, GuestNorm(args.guest_data))) :
          \E zone \in {ZoneMapGet(args.config.zones,
                                  Work(args.mapping, GuestNorm(args.guest_data))[i].zone_id)} :
              zone # None /\ PageMissing(zone)
    /\ \E i \in 1..Len(Work(args.mapping, GuestNorm(args.guest_data))) :
          \E zone \in {ZoneMapGet(args.config.zones,
                                  Work(args.mapping, GuestNorm(args.guest_data))[i].zone_id)} :
              /\ zone # None
              /\ ~PageMissing(zone)
              /\ ~is_valid(zone_to_pixel_rect(<<RowW, RowH>>, zone, args.dpi))
    /\ images # _base_images
    /\ output_dir # {}

\* the zone of the last pair applied, and whether its mask is off
LastZone == ZoneMapGet(args.config.zones, ret.item.zone_id)
MaskOff(zone) == ~zone.mask.enabled \/ zone.mask.mode = MaskMode.NONE

\* C5: when the zone's mask is disabled or its mode is none, whatever its
\* other mask settings, mask_zone_pixels returns the page unchanged, and
\* the page is written back as composite_text draws the non-empty text over
\* the original pixels.
C5_MaskOffNeverErases ==
    (/\ fn = "_process_single" /\ ret.step = "zone" /\ ret.outcome = "applied"
     /\ MaskOff(LastZone)) =>
        /\ ret.erased = PageAt(ret.before, LastZone.page_number - 1)
        /\ mask_zone_pixels(PageAt(ret.before, LastZone.page_number - 1), LastZone,
                            args.dpi).strategy = "none"
        /\ ret.item.text_val # <<>> =>
              PageAt(images, LastZone.page_number - 1)
                  = composite_text(PageAt(ret.before, LastZone.page_number - 1), LastZone,
                                   ret.item.text_val, args.dpi, args.pango_raises).img
        /\ ret.item.text_val = <<>> => images = ret.before

\* a disabled mask with a colour and a mode set: the page was not erased and
\* the text was drawn on it
C5_Witness ==
    /\ fn = "_process_single" /\ ret.step = "zone" /\ ret.outcome = "applied"
    /\ ~LastZone.mask.enabled
    /\ LastZone.mask.color_hex # <<>>
    /\ LastZone.mask.mode = MaskMode.SOLID
    /\ ret.erased = PageAt(ret.before, LastZone.page_number - 1)
    /\ ret.drawn
    /\ images # ret.before

\* the page of the zone of the last pair, as it was before the pair
PageBefore == PageAt(ret.before, LastZone.page_number - 1)

\* C22: for a mapped zone that is configured and whose page is in range, the
\* eraser runs first, on the page as the earlier zones left it, and runs also
\* when the text of the column is empty; the text is composited on the
\* erased page, and only when it is not empty; the result is written back as
\* that page of the working copy.
C22_EraseThenTextThenWriteBack ==
    (fn = "_process_single" /\ ret.step = "zone") =>
        /\ (LastZone # None /\ ~PageMissing(LastZone)) => ret.outcome = "applied"
        /\ ret.outcome = "applied" =>
              /\ ret.erased = mask_zone_pixels(PageBefore, LastZone, args.dpi).img
              /\ ret.drawn => ret.item.text_val # <<>>
              /\ PageAt(images, LastZone.page_number - 1) =
                    IF ret.item.text_val = <<>> THEN ret.erased
                    ELSE composite_text(ret.erased, LastZone, ret.item.text_val, args.dpi,
                                        args.pango_raises).img

\* the second zone of a page erases the page that holds the first zone's text
C22_Witness ==
    /\ fn = "_process_single" /\ ret.step = "zone" /\ ret.outcome = "applied"
    /\ ret.item.zone_id = NoteZone
    /\ PageBefore # PageAt(_base_images, LastZone.page_number - 1)
    /\ ret.erased # PageBefore
    /\ ret.erased # mask_zone_pixels(PageAt(_base_images, LastZone.page_number - 1), LastZone,
                                     args.dpi).img
    /\ PageAt(images, LastZone.page_number - 1) = ret.erased

\* the page numbers of the configured zones the row's mapping names
TargetedPages ==
    {n \in 1..Len(_base_images) :
        \E i \in 1..Len(args.mapping) :
            \E j \in 1..Len(ZoneIdsOf(args.mapping[i][2])) :
                \E k \in 1..Len(args.config.zones) :
                    /\ args.config.zones[k].zone_id = ZoneIdsOf(args.mapping[i][2])[j]
                    /\ args.config.zones[k].page_number = n}

\* C26: a row has as many page images as the template has pages, each of
\* the size of the template's page at that position; a zone on page p
\* changes page p of the working copy only; and in the list of images the
\* document is rebuilt from, every page that no configured zone of the
\* mapping is on is equal to the base page, pixel for pixel.
C26_PageFrame ==
    /\ fn \in {"_process_single", "done"} =>
          /\ Len(images) = Len(_base_images)
          /\ \A q \in 1..Len(images) : SameShape(images[q], _base_images[q])
    /\ (fn = "_process_single" /\ ret.step = "zone") =>
          \A q \in 1..Len(images) :
              (ret.outcome # "applied" \/ q # LastZone.page_number)
                  => images[q] = ret.before[q]
    /\ fn = "done" =>
          \E f \in output_dir :
              /\ f.name = ret.output_path
              /\ Len(f.pages) = Len(_base_images)
              /\ \A q \in 1..Len(_base_images) :
                    q \notin TargetedPages => f.pages[q] = _base_images[q]

\* a document of three pages: the first and the last page changed, the
\* second, which no zone is on, as in the template
C26_Witness ==
    /\ fn = "done"
    /\ Len(_base_images) = 3
    /\ TargetedPages = {1, 3}
    /\ \E f \in output_dir :
          /\ f.name = ret.output_path
          /\ f.pages[1] # _base_images[1]
          /\ f.pages[2] = _base_images[2]
          /\ f.pages[3] # _base_images[3]

-----------------------------------------------------------------------------
(* Harness: BatchProcessor.__init__, process_batch and concurrent calls of *)
(* process_single_guest                                                     *)

\* rows of a batch, and concurrent callers of process_single_guest
MaxRows == 3
MaxCalls == 2

\* a name zone and a note zone over the same rectangle of page 1; the name
\* zone is the one erased before it is written
BatchZones(font_size, mask) ==
    <<Zone(NameZone, 1, Rect(1, 0, 22, RowH), mask,
           TextConfig(font_size, BlackHex, Align.CENTER, VAlign.MIDDLE)),
      Zone(NoteZone, 1, Rect(1, 0, 22, RowH), MaskConfig(TRUE, MaskMode.NONE, NoColor),
           TextConfig(12, BlackHex, Align.LEFT, VAlign.MIDDLE))>>

\* the settings of a batch: a plain one, one whose name zone erases, one
\* whose name zone cannot be rendered (ceiling below the floor), and one
\* whose file name template format() cannot fill
BatchConfigs ==
    {[font_size |-> 12, dpi |-> 72, mask |-> MaskConfig(TRUE, MaskMode.NONE, NoColor),
      output_filename_template |-> <<>>],
     [font_size |-> 12, dpi |-> 72, mask |-> MaskConfig(TRUE, MaskMode.SOLID, Red),
      output_filename_template |-> <<>>],
     [font_size |-> 6, dpi |-> 144, mask |-> MaskConfig(TRUE, MaskMode.NONE, NoColor),
      output_filename_template |-> <<>>],
     [font_size |-> 12, dpi |-> 72, mask |-> MaskConfig(TRUE, MaskMode.NONE, NoColor),
      output_filename_template |-> <<"{id}", "{name}">>]}

\* a mapping that names a zone id the template does not have, and one that
\* names configured zones only
BatchMappings ==
    {<<<<NoteKey, [str |-> NoteZone]>>, <<NameKey, [list |-> <<GhostZone, NameZone>>]>>>>,
     <<<<NoteKey, [str |-> NoteZone]>>, <<NameKey, [str |-> NameZone]>>>>}

\* rows: two guests of the same name with different notes, and a guest
\* without a name
BatchGuests ==
    {<<<<NameKey, <<"A">>>>, <<NoteKey, <<"B">>>>>>,
     <<<<NameKey, <<"A">>>>, <<NoteKey, <<"B", "B">>>>>>,
     <<<<NameKey, <<" ">>>>, <<NoteKey, <<"B">>>>>>}

InitProcessor(concurrent, n) ==
    /\ OPENCV_AVAILABLE = FALSE
    /\ PANGO_AVAILABLE = FALSE
    /\ fn = ""
    /\ \E guests \in [1..n -> BatchGuests], cfg \in BatchConfigs, mapping \in BatchMappings,
          base_pdf_exists \in BOOLEAN :
          \* the mapping of configured zones only goes with the plain settings
          /\ (\A i \in 1..Len(mapping) : "str" \in DOMAIN mapping[i][2]) =>
                (cfg.font_size = 12 /\ cfg.mask.mode = MaskMode.NONE
                 /\ cfg.output_filename_template = <<>>)
          \* the rows differ where the name zone is not erased and the file
          \* name template is the default one; elsewhere they are all alike
          /\ \/ /\ base_pdf_exists
                /\ cfg.mask.mode = MaskMode.NONE
                /\ cfg.output_filename_template = <<>>
                /\ \E i \in 1..Len(mapping) : "list" \in DOMAIN mapping[i][2]
                \* interleaved calls differ in their names only
                /\ concurrent => \A c \in 1..n : Get(guests[c], NoteKey) = <<"B">>
             \/ \A c \in 1..n : guests[c] = guests[1]
          /\ args = [concurrent |-> concurrent, base_pdf_exists |-> base_pdf_exists,
                     pages |-> <<Page("stripes", RowW, RowH)>>,
                     config |-> [zones |-> BatchZones(cfg.font_size, cfg.mask),
                                 output_name_column |-> <<>>,
                                 output_filename_template |-> cfg.output_filename_template],
                     dpi |-> cfg.dpi, pango_raises |-> FALSE,
                     guests |-> guests, mapping |-> mapping]
    /\ ret = None
    /\ exc = "none"
    /\ NoProcessor

InitBatch == InitProcessor(FALSE, MaxRows)
InitCalls == InitProcessor(TRUE, MaxCalls)

NextBatch ==
    \/ Construct
    \/ BeginBatch
    \/ \E c \in 1..Len(calls) : StartRow(c)
    \/ \E c \in 1..Len(calls) : RowZone(c)
    \/ \E c \in 1..Len(calls) : RowFinish(c)
    \/ EndBatch

NextCalls ==
    \/ Construct
    \/ BeginBatch
    \/ \E c \in 1..Len(calls) : StartRow(c)
    \/ \E c \in 1..Len(calls) : RowZone(c)
    \/ \E c \in 1..Len(calls) : RowFinish(c)

SpecBatch == InitBatch /\ [][NextBatch]_vars

\* one row, given to process_single_guest or to process_batch as its only row
InitPreview == \E concurrent \in BOOLEAN : InitProcessor(concurrent, 1)
SpecPreview == InitPreview /\ [][NextBatch]_vars

\* generate_all after process_batch has returned output_paths: the i-th path
\* is stored with the i-th row of session["csv_data"] and with that row's
\* value in the session's phone column ("" when the row has no such column
\* or no column is set, written <<>> here).  i < len(csv_data) holds for every path, since
\* output_paths has at most one path for each row.
GenerateAll ==
    /\ fn = "returned"
    /\ fn' = "generate_all"
    /\ \E phone_column \in {<<>>, NameKey, NoteKey} :
          ret' = [i \in 1..Len(ret) |->
                     [path |-> ret[i],
                      guest_data |-> args.guests[i],
                      phone |-> Get(args.guests[i], phone_column)]]
    /\ UNCHANGED <<OPENCV_AVAILABLE, PANGO_AVAILABLE, args, exc, rowvars>>

\* process_batch as generate_all calls it, followed by the pairing of its
\* paths with the rows
NextGenerate == NextBatch \/ GenerateAll
SpecGenerate == InitBatch /\ [][NextGenerate]_vars
SpecCalls == InitCalls /\ [][NextCalls]_vars

\* row c taken alone: its pairs, its file name, and the pages and file it
\* ends with when it is the only row processed on the template's pages
RowWork(c) == Work(args.mapping, GuestNorm(args.guests[c]))
RowName(c) ==
    OutputFilename(GuestNorm(args.guests[c]), args.mapping, RowIndex(c),
                   args.config.output_name_column, args.config.output_filename_template)
RowAlone(c) == RunRow(args.pages, RowWork(c))
RowFails(c) == RowAlone(c).exc # "none" \/ RowName(c).exc # "none"
AllOver == calls # <<>> /\ \A c \in 1..Len(calls) : calls[c].pc \in {"done", "raised"}

\* C13: the base images stay as they were loaded whatever calls run and
\* however they interleave, and the pages a call ends with are those of its
\* row processed alone on the template: they depend on the row, the mapping
\* and the Config only.
C13_RowsDoNotInterfere ==
    /\ fn \notin {"", "raised"} => _base_images = args.pages
    /\ AllOver =>
          \A c \in 1..Len(calls) :
              \E alone \in {RowAlone(c)} :
                  IF alone.exc # "none"
                  THEN calls[c].pc = "raised" /\ calls[c].exc = alone.exc
                  ELSE IF RowName(c).exc # "none" THEN calls[c].pc = "raised"
                  ELSE calls[c].pc = "done" /\ calls[c].images = alone.images

\* one call is over and another is in its loop, both with pages of their
\* own that differ from the base images
C13_Witness ==
    /\ fn = "process_single_guest"
    /\ calls[1].pc = "loop" /\ calls[1].images # _base_images
    /\ calls[2].pc = "done" /\ calls[2].images # _base_images
    /\ calls[1].images # calls[2].images

\* the file names of the rows from c on that are not in fails, in row order
RECURSIVE PathsFrom(_, _)
PathsFrom(c, fails) ==
    IF c > Len(args.guests) THEN <<>>
    ELSE (IF c \in fails THEN <<>> ELSE <<RowName(c).filename>>) \o PathsFrom(c + 1, fails)

\* some row of the batch can take its next step
RowCanStep ==
    \E c \in 1..Len(calls) :
        calls[c].pc = "loop" \/ (calls[c].pc = "idle" /\ MayStart(c))

\* C14: process_batch does not raise because of a row and goes on after a
\* row that raised until it has returned; it returns the paths of exactly
\* the rows that did not raise, in row order, and the number of paths plus
\* the number of rows that raised is the number of rows.
C14_RowFailuresAreIsolated ==
    /\ ("guests" \in DOMAIN args /\ args.base_pdf_exists) => (fn # "raised" /\ exc = "none")
    /\ fn = "process_batch" => (AllOver \/ RowCanStep)
    /\ fn = "returned" =>
          \E fails \in {{c \in 1..Len(args.guests) : RowFails(c)}} :
              /\ \A c \in 1..Len(calls) :
                    calls[c].pc = IF c \in fails THEN "raised" ELSE "done"
              /\ ret = PathsFrom(1, fails)
              /\ Len(ret) + Cardinality(fails) = Len(args.guests)

\* a batch has returned with a row that raised followed by a row that was
\* written
C14_Witness ==
    /\ fn = "returned"
    /\ \E c \in 1..Len(calls), d \in 1..Len(calls) :
          c < d /\ calls[c].pc = "raised" /\ calls[d].pc = "done"
    /\ Len(ret) >= 1 /\ Len(ret) < Len(args.guests)

\* the mapping names a zone id that the template's zones do not have
UnknownZoneMapped ==
    \E i \in 1..Len(RowWork(1)) :
        \A z \in 1..Len(args.config.zones) :
            args.config.zones[z].zone_id # RowWork(1)[i].zone_id

\* the pairs of row c whose zone id the template has
KnownWork(c) ==
    SelectSeq(RowWork(c),
              LAMBDA item : \E z \in 1..Len(args.config.zones) :
                               args.config.zones[z].zone_id = item.zone_id)

C18_OutputDirAppendOnly ==
    fn = "returned" =>
        /\ \A j \in 1..Len(ret), k \in 1..Len(ret) : j # k => ret[j] # ret[k]
        /\ \A c \in 1..Len(calls) :
              calls[c].pc = "done" =>
                  \E f \in output_dir : f.name = calls[c].path /\ f.pages = calls[c].images

\* C20: when the base PDF is missing, constructing the BatchProcessor
\* raises FileNotFoundError with no page rasterized; no row is processed
\* and no file is written, then or later.
C20_MissingTemplateIsFatal ==
    ("base_pdf_exists" \in DOMAIN args /\ ~args.base_pdf_exists) =>
        /\ fn \in {"", "raised"}
        /\ fn = "raised" => exc = "FileNotFoundError"
        /\ _base_images = <<>>
        /\ calls = <<>>
        /\ output_files = <<>>
        /\ output_dir = {}

\* the construction has raised
C20_Witness ==
    /\ "base_pdf_exists" \in DOMAIN args /\ ~args.base_pdf_exists
    /\ fn = "raised" /\ exc = "FileNotFoundError"
    /\ Len(args.guests) = MaxRows

\* the only row taken alone with index 0: the error it ends with ("none"
\* when it has none) and the file it writes
OnlyRowName ==
    OutputFilename(GuestNorm(args.guests[1]), args.mapping, 0,
                   args.config.output_name_column, args.config.output_filename_template)
OnlyRowError ==
    IF RowAlone(1).exc # "none" THEN RowAlone(1).exc ELSE OnlyRowName.exc
OnlyRowFile == [name |-> OnlyRowName.filename, pages |-> RowAlone(1).images]

\* C21: for a row that processes without error, process_single_guest gives
\* the path and writes the pages that process_batch gives and writes for
\* that row as its only row; for a row that fails, process_single_guest
\* raises the row's error to its caller, where process_batch returns an
\* empty list.
C21_PreviewIsTheBatchOfOne ==
    /\ (fn = "process_single_guest" /\ AllOver) =>
          IF OnlyRowError = "none"
          THEN /\ calls[1].pc = "done"
               /\ calls[1].path = OnlyRowName.filename
               /\ output_dir = {OnlyRowFile}
          ELSE /\ calls[1].pc = "raised"
               /\ calls[1].exc = OnlyRowError
               /\ output_dir = {}
    /\ fn = "returned" =>
          IF OnlyRowError = "none"
          THEN /\ ret = <<OnlyRowName.filename>>
               /\ output_dir = {OnlyRowFile}
          ELSE /\ ret = <<>>
               /\ output_dir = {}

\* a guest without a name given to process_single_guest: the file is named
\* by position, as for the first row of a batch
C21_Witness ==
    /\ fn = "process_single_guest" /\ AllOver
    /\ Len(calls) = 1
    /\ calls[1].pc = "done"
    /\ calls[1].path = <<"g", "u", "e", "s", "t", "_", "1", ".", "p", "d", "f">>
    /\ calls[1].images # _base_images
    /\ output_dir = {[name |-> calls[1].path, pages |-> calls[1].images]}

\* the row that produced the k-th path of output_paths: the k-th row, in
\* the order of the rows, that was written
ProducerOf(k) ==
    CHOOSE c \in 1..Len(calls) :
        /\ calls[c].pc = "done"
        /\ Cardinality({d \in 1..c : calls[d].pc = "done"}) = k

\* C27: after generate_all, every output record holds the guest data of the
\* row that produced its file, and a phone taken from that row, also when
\* an earlier row of the batch failed and was skipped.
C27_OutputsPairFileWithItsRow ==
    fn = "generate_all" =>
        \A k \in 1..Len(ret) :
            /\ ret[k].path = calls[ProducerOf(k)].path
            /\ ret[k].guest_data = args.guests[ProducerOf(k)]
            /\ ret[k].phone \in {<<>>} \cup {args.guests[ProducerOf(k)][j][2] :
                                                j \in 1..Len(args.guests[ProducerOf(k)])}

-----------------------------------------------------------------------------
(* Harness: the name of a row's output file *)

SanMaxLen == 3

\* a letter, a combining mark, a digit, a fraction, the three kept signs, a
\* path separator, two control characters and a punctuation mark
SanChars == {"A", "U+0301", "7", "U+00BD", " ", "_", "-", "/", "NUL", "\t", "."}

RECURSIVE StringsUpTo(_, _)
StringsUpTo(chars, n) ==
    IF n = 0 THEN {<<>>}
    ELSE StringsUpTo(chars, n - 1)
           \cup {<<ch>> \o t : ch \in chars, t \in {u \in StringsUpTo(chars, n - 1) : Len(u) = n - 1}}

NamesKey == <<"N", "a", "m", "e", "s">>
FullNameKey == <<"F", "u", "l", "l", "n", "a", "m", "e">>
PaddedCity == <<" ", "c", "i", "t", "y", " ">>
UpperNameZone == <<"N", "A", "M", "E">>

\* the values a cell of the row can hold: none, blank, or the given text
CellValues(text) == {<<>>, <<" ">>, text}

\* rows whose loosely matching key comes first, then two keys that match a
\* name header exactly (the later header first), then two other columns
DeriveRows ==
    {<<<<NamesKey, v1>>, <<FullNameKey, v2>>, <<NameKey, v3>>, <<NoteKey, v4>>, <<CityKey, v5>>>> :
        v1 \in CellValues(<<"l">>), v2 \in CellValues(<<"f">>),
        v3 \in CellValues(<<" ", "e", " ">>), v4 \in CellValues(<<"m">>),
        v5 \in CellValues(<<"o">>)}

DeriveMappings ==
    {<<>>,
     <<<<NoteKey, [str |-> NameZone]>>>>,
     <<<<NoteKey, [str |-> NoteZone]>>>>,
     <<<<NoteKey, [other |-> TRUE]>>>>,
     <<<<CityKey, [str |-> NoteZone]>>, <<NoteKey, [list |-> <<GhostZone, UpperNameZone>>]>>>>,
     <<<<CityKey, [str |-> NameZone]>>, <<NoteKey, [str |-> NameZone]>>>>}

DeriveColumns == {<<>>, <<" ">>, CityKey, PaddedCity, FarZone}

InitName ==
    /\ OPENCV_AVAILABLE = FALSE
    /\ PANGO_AVAILABLE = FALSE
    /\ fn = "idle"
    /\ \/ \E value \in StringsUpTo(SanChars, SanMaxLen), index \in {0, 1} :
             args = [value |-> value, index |-> index]
       \/ \E guest_data \in DeriveRows, mapping \in DeriveMappings,
              output_name_column \in DeriveColumns, index \in {0, 1} :
             args = [guest_data |-> guest_data, mapping |-> mapping, index |-> index,
                     output_name_column |-> output_name_column]
    /\ ret = None
    /\ exc = "none"
    /\ NoProcessor

\* _sanitize_filename(value), and the file name of a row whose name is value
CallSanitizeFilename ==
    /\ fn = "idle"
    /\ "value" \in DOMAIN args
    /\ fn' = "_sanitize_filename"
    /\ ret' = [safe |-> _sanitize_filename(args.value),
               filename |-> OutputFilename(<<<<NameKey, args.value>>>>, <<>>, args.index,
                                           <<>>, <<>>).filename]
    /\ UNCHANGED <<OPENCV_AVAILABLE, PANGO_AVAILABLE, args, exc, rowvars>>

CallDeriveOutputName ==
    /\ fn = "idle"
    /\ "guest_data" \in DOMAIN args
    /\ fn' = "_derive_output_name"
    /\ ret' = _derive_output_name(args.guest_data, args.mapping, args.index,
                                  args.output_name_column)
    /\ UNCHANGED <<OPENCV_AVAILABLE, PANGO_AVAILABLE, args, exc, rowvars>>

NextName == CallSanitizeFilename \/ CallDeriveOutputName

SpecName == InitName /\ [][NextName]_vars

\* guest_<index+1>
Placeholder(index) == <<"g", "u", "e", "s", "t", "_">> \o Str(index + 1)

AllowedChars == Letter \cup Mark \cup Number \cup {" ", "_", "-"}

\* C16: _sanitize_filename returns only letters, combining marks, digits
\* (the characters of a Number category), spaces, underscores and hyphens,
\* never a path separator or a control character; a value without an
\* allowed character gives the empty string; a row whose name sanitizes to
\* the empty string is written as guest_<index+1>.pdf.
C16_SanitizedNameIsSafe ==
    fn = "_sanitize_filename" =>
        /\ \A i \in 1..Len(ret.safe) :
              ret.safe[i] \in AllowedChars /\ ret.safe[i] \notin {"/", "\\", "NUL", "\t", "\n"}
        /\ (\A i \in 1..Len(args.value) : args.value[i] \notin AllowedChars) => ret.safe = <<>>
        /\ ret.safe = <<>> => ret.filename = Placeholder(args.index) \o <<".", "p", "d", "f">>

\* a value of a separator and a punctuation mark only, named by position
C16_Witness ==
    /\ fn = "_sanitize_filename"
    /\ args.value = <<"/", ".", "NUL">>
    /\ args.index = 1
    /\ ret.safe = <<>>
    /\ ret.filename = <<"g", "u", "e", "s", "t", "_", "2", ".", "p", "d", "f">>

\* C28: with the default filename template, whatever the row holds as its
\* name, the file name has no path separator and is neither empty nor a dot
\* name, so that output_dir / filename is a direct child of the output
\* directory, and it ends with .pdf after a name part that is not empty.
C28_OutputStaysInOutputDir ==
    fn = "_sanitize_filename" =>
        /\ \A i \in 1..Len(ret.filename) : ret.filename[i] \notin {"/", "\\", "NUL"}
        /\ Len(ret.filename) > 4
        /\ SubSeq(ret.filename, Len(ret.filename) - 3, Len(ret.filename)) = <<".", "p", "d", "f">>
        /\ ret.filename[1] # "."

\* a name between two path separators
C28_Witness ==
    /\ fn = "_sanitize_filename"
    /\ args.value = <<"/", "A", "/">>
    /\ ret.filename = <<"A", ".", "p", "d", "f">>

\* the trimmed cell of the row under a key
CellOf(key) == Strip(Get(args.guest_data, key))

\* (1) the cell under the configured name column
ConfiguredName ==
    IF Strip(args.output_name_column) = <<>> THEN <<>>
    ELSE CellOf(Strip(args.output_name_column))

\* (2) the entries of the mapping whose column is mapped to a name zone and
\* holds a value
MappedNameEntries ==
    {i \in 1..Len(args.mapping) :
        /\ \E j \in 1..Len(ZoneIdsOf(args.mapping[i][2])) :
              Lower(ZoneIdsOf(args.mapping[i][2])[j]) \in NameZoneIds
        /\ CellOf(args.mapping[i][1]) # <<>>}
MappedName ==
    IF MappedNameEntries = {} THEN <<>>
    ELSE CellOf(args.mapping[SetMin(MappedNameEntries)][1])

\* (3) the name headers some key of the row matches exactly, with a value
ExactHeaders ==
    {h \in 1..Len(preferred_headers) :
        \E k \in 1..Len(args.guest_data) :
            /\ Lower(Strip(args.guest_data[k][1])) = preferred_headers[h]
            /\ Strip(args.guest_data[k][2]) # <<>>}
ExactKeys(h) ==
    {k \in 1..Len(args.guest_data) :
        /\ Lower(Strip(args.guest_data[k][1])) = preferred_headers[h]
        /\ Strip(args.guest_data[k][2]) # <<>>}
ExactName ==
    IF ExactHeaders = {} THEN <<>>
    ELSE Strip(args.guest_data[SetMin(ExactKeys(SetMin(ExactHeaders)))][2])

\* then the keys of the row that hold "name", with a value
LooseKeys ==
    {k \in 1..Len(args.guest_data) :
        /\ \/ Contains(Lower(Strip(args.guest_data[k][1])), <<"n", "a", "m", "e">>)
           \/ Contains(args.guest_data[k][1], GujaratiName)
        /\ Strip(args.guest_data[k][2]) # <<>>}
LooseName ==
    IF LooseKeys = {} THEN <<>> ELSE Strip(args.guest_data[SetMin(LooseKeys)][2])

\* C17: the derived name is the first non-empty trimmed value among the
\* configured name column, the column mapped to a name zone, a key that
\* matches a name header exactly, a key that holds "name"; guest_<index+1>
\* only when all four are empty.
C17_NamePriority ==
    fn = "_derive_output_name" =>
        ret = IF ConfiguredName # <<>> THEN ConfiguredName
              ELSE IF MappedName # <<>> THEN MappedName
              ELSE IF ExactName # <<>> THEN ExactName
              ELSE IF LooseName # <<>> THEN LooseName
              ELSE Placeholder(args.index)

\* the mapped column wins over an exact and a loose header, the configured
\* column being blank
C17_Witness ==
    /\ fn = "_derive_output_name"
    /\ args.output_name_column = PaddedCity
    /\ ConfiguredName = <<>>
    /\ MappedName = <<"m">>
    /\ ExactName = <<"e">>
    /\ LooseName = <<"l">>
    /\ ret = <<"m">>

=============================================================================
